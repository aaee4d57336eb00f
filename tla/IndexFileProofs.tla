--------------------------- MODULE IndexFileProofs ---------------------------
(***************************************************************************)
(* For any number of saves, crashes and power failures: the two writers    *)
(* and their temporary files implement ReplacedFile, and the watcher       *)
(* misses no replacement.                                                  *)
(***************************************************************************)
EXTENDS IndexFile, SequenceTheorems, TLAPS

-----------------------------------------------------------------------------
(* The invariant.                                                          *)

Ids  == Inodes \cup {NoInode}
Dirs == [Names -> Ids]
News == [kind : {"dir", "changed", "gone"}, inode : Ids]

StorageType ==
    /\ dir \in Dirs /\ dirs \subseteq Dirs /\ dir \in dirs
    /\ content \in [Inodes -> [of : Inodes, part : {"some", "whole"}]]
    /\ synced \subseteq Inodes

WriterType ==
    /\ pc \in [Writers -> {"idle", "unlink", "create", "write", "sync", "rename", "syncdir"}]
    /\ fd \in [Writers -> Ids] /\ save \in [Writers -> Inodes] /\ ok \in [Writers -> BOOLEAN]
    /\ begun \in Inodes

WatchType ==
    /\ watching \in BOOLEAN /\ replaced \in BOOLEAN /\ reload \in BOOLEAN
    /\ watched \in Ids /\ news \in Seq(News)
    /\ reader \in {"idle", "open", "read"}
    /\ held \in IF reader = "read" THEN Inodes ELSE {NoInode}

TypeOK == StorageType /\ WriterType /\ WatchType

\* Whatever a power failure leaves, the index file is whole and synced, and
\* is not what a temporary name stands for; nor do two names share an inode.
StorageInv ==
    /\ \A d \in dirs : d[idx] \in Inodes => content[d[idx]].part = "whole" /\ d[idx] \in synced
    /\ \A d \in dirs : \A m, n \in Names : m # n /\ d[m] \in Inodes => d[m] # d[n]
    /\ \A d \in dirs : \A n \in Names \ {idx} : dir[n] \in Inodes => dir[n] # d[idx]

\* A writer's file keeps its temporary name until it is renamed.
WriterInv ==
    \A w \in Writers :
        /\ pc[w] \in {"write", "sync", "rename"} => fd[w] \in Inodes /\ dir[TempPath(w)] = fd[w]
        /\ pc[w] \in {"sync", "rename"} => content[fd[w]].part = "whole"
        /\ pc[w] = "rename" => fd[w] \in synced

\* The inode of a save that has not created its file is nobody's.
FreshInv ==
    /\ \A d \in dirs : \A n \in Names : d[n] \in Inodes => d[n] <= begun
    /\ \A w \in Writers : save[w] <= begun
    /\ \A v, w \in Writers : v # w /\ save[v] = save[w] => save[v] = 0
    /\ \A w \in Writers : pc[w] \in {"unlink", "create"} =>
           save[w] # 0 /\ \A d \in dirs : \A n \in Names : d[n] # save[w]

FileInv == StorageInv /\ WriterInv /\ FreshInv

Told(what) == \E i \in 1..Len(news) : news[i] = what

\* Something the watcher has to be told will make it ask for a reload.
Coming ==
    \/ watched = NoInode /\ Told(DirChanged)
    \/ watched # NoInode /\ \E i \in 1..Len(news) : news[i].kind # "dir" /\ news[i].inode = watched

\* An inode that is watched in vain is gone, and that is being told or will be
\* when it has been read.
WatchInv ==
    /\ ~watching => watched = NoInode /\ ~replaced /\ news = <<>>
    /\ watched \in Inodes /\ watched # dir[idx] =>
           held = watched \/ Told([kind |-> "gone", inode |-> watched])
    /\ watching /\ watched = NoInode /\ dir[idx] \in Inodes => Told(DirChanged)

\* A replacement is loaded, or it will be.
LoadInv ==
    replaced =>
        /\ dir[idx] \in Inodes
        /\ \/ reload \/ reader = "open" \/ Coming
           \/ reader = "read" /\ held \in {watched, dir[idx]}
           \/ reader = "idle" /\ loaded = VersionIn(dir[idx])

IInv == TypeOK /\ FileInv /\ WatchInv /\ LoadInv

-----------------------------------------------------------------------------
(* Names, inodes and what the watcher is told.                             *)

LEMMA InodesAre == Inodes \subseteq Nat /\ NoInode \notin Inodes /\ NoInode \in Nat /\ 0 \in Inodes
  BY BoundsAssumption DEF Inodes, NoInode

LEMMA TempPaths ==
    /\ idx \in Names
    /\ \A w \in Writers : TempPath(w) \in Names \ {idx}
    /\ \A v, w \in Writers : v # w => TempPath(v) # TempPath(w)
  BY WritersAssumption DEF Writers, TempPath, Names, idx

LEMMA TellType ==
    ASSUME NEW queue \in Seq(News), NEW what \in News
    PROVE  Tell(queue, what) \in Seq(News)
  BY DEF Tell

\* Telling keeps what is still to be told, and adds to it if there is a
\* watcher.
LEMMA TellTells ==
    ASSUME NEW queue \in Seq(News), NEW what \in News
    PROVE  /\ \A i \in 1..Len(queue) : \E j \in 1..Len(Tell(queue, what)) :
                  Tell(queue, what)[j] = queue[i]
           /\ watching => \E j \in 1..Len(Tell(queue, what)) : Tell(queue, what)[j] = what
<1>1. CASE Tell(queue, what) = queue /\ ~watching
  BY <1>1
<1>2. CASE Tell(queue, what) = queue /\ queue # <<>> /\ Last(queue) = what
  BY <1>2 DEF Last
<1>3. CASE Tell(queue, what) = Append(queue, what)
  BY <1>3, AppendProperties
<1> QED
  BY <1>1, <1>2, <1>3 DEF Tell

LEMMA NewsAre ==
    /\ DirChanged \in News
    /\ \A i \in Ids : [kind |-> "gone", inode |-> i] \in News /\ [kind |-> "changed", inode |-> i] \in News
  BY DEF DirChanged, News, Ids

LEMMA UnlinkedType ==
    ASSUME NEW queue \in Seq(News), NEW i \in Ids
    PROVE  Unlinked(queue, i) \in Seq(News)
<1>1. Tell(queue, [kind |-> "changed", inode |-> i]) \in Seq(News)
  BY TellType, NewsAre
<1>2. Tell(Tell(queue, [kind |-> "changed", inode |-> i]), [kind |-> "gone", inode |-> i]) \in Seq(News)
  BY <1>1, TellType, NewsAre
<1> QED
  BY <1>1, <1>2 DEF Unlinked

\* The head of a list, and what follows it.
LEMMA HeadAndTail ==
    ASSUME NEW queue \in Seq(News), queue # <<>>
    PROVE  /\ Head(queue) \in News /\ Tail(queue) \in Seq(News)
           /\ \A i \in 1..Len(queue) :
                  \/ queue[i] = Head(queue)
                  \/ \E j \in 1..Len(Tail(queue)) : Tail(queue)[j] = queue[i]
<1>1. /\ Head(queue) \in News /\ Tail(queue) \in Seq(News)
      /\ Len(queue) \in Nat /\ Len(Tail(queue)) = Len(queue) - 1
      /\ \A i \in 1..Len(Tail(queue)) : Tail(queue)[i] = queue[i + 1]
      /\ Head(queue) = queue[1]
  BY HeadTailProperties
<1>2. ASSUME NEW i \in 1..Len(queue), i # 1
      PROVE  \E j \in 1..Len(Tail(queue)) : Tail(queue)[j] = queue[i]
  <2>1. i - 1 \in 1..Len(Tail(queue)) /\ (i - 1) + 1 = i
    BY <1>1, <1>2
  <2> QED
    BY <1>1, <2>1
<1> QED
  BY <1>1, <1>2

-----------------------------------------------------------------------------
(* Types.                                                                  *)

LEMMA TypeInit == Init => TypeOK
<1> SUFFICES ASSUME Init PROVE TypeOK
  OBVIOUS
<1>1. StorageType
  BY InodesAre, TempPaths DEF Init, StorageType, Dirs, Ids
<1>2. WriterType
  BY InodesAre DEF Init, WriterType, Ids
<1>3. WatchType
  BY EmptySeq DEF Init, WatchType, Ids
<1> QED
  BY <1>1, <1>2, <1>3 DEF TypeOK

LEMMA ReturnType ==
    ASSUME WriterType, NEW w \in Writers, NEW result \in BOOLEAN, Return(w, result), begun' = begun
    PROVE  WriterType'
  BY InodesAre DEF WriterType, Return, Goto, Ids

\* A change of one name, or of none.
LEMMA DirType ==
    ASSUME StorageType, NEW n \in Names, NEW i \in Ids,
           \/ UNCHANGED <<dir, dirs>>
           \/ SetDir([dir EXCEPT ![n] = i])
    PROVE  dir' \in Dirs /\ dirs' \subseteq Dirs /\ dir' \in dirs'
  BY DEF StorageType, SetDir, Dirs

LEMMA TypeStep == TypeOK /\ [Next]_vars => TypeOK'
<1> SUFFICES ASSUME TypeOK, [Next]_vars PROVE TypeOK'
  OBVIOUS
<1> USE DEF storage, writer, watch, loader, notSaving, notWatching, notLoading
<1>0. StorageType /\ WriterType /\ WatchType /\ NoInode \in Ids
  BY DEF TypeOK, Ids
<1>1. CASE UNCHANGED vars
  BY <1>0, <1>1 DEF vars, TypeOK, StorageType, WriterType, WatchType
<1>2. ASSUME NEW w \in Writers, Begin(w) PROVE TypeOK'
  <2>1. begun + 1 \in Inodes
    BY <1>0, <1>2, BoundsAssumption DEF Begin, WriterType, Inodes
  <2>2. WriterType'
    BY <1>0, <1>2, <2>1 DEF Begin, WriterType, Goto
  <2> QED
    BY <1>0, <1>2, <2>2 DEF Begin, TypeOK, StorageType, WatchType
<1>3. ASSUME NEW w \in Writers, NEW queue, queue \in {news, Tell(news, DirChanged)}
      PROVE  queue \in Seq(News)
  BY <1>0, <1>3, TellType, NewsAre DEF WatchType
<1>4. ASSUME NEW w \in Writers, Unlink(w) PROVE TypeOK'
  <2>1. dir' \in Dirs /\ dirs' \subseteq Dirs /\ dir' \in dirs'
    BY <1>0, <1>4, TempPaths, DirType DEF Unlink
  <2>2. news' \in Seq(News)
    BY <1>3, <1>4 DEF Unlink
  <2>3. WriterType'
    BY <1>0, <1>4 DEF Unlink, WriterType, Goto
  <2> QED
    BY <1>0, <1>4, <2>1, <2>2, <2>3 DEF Unlink, TypeOK, StorageType, WatchType
<1>5. ASSUME NEW w \in Writers, Create(w) PROVE TypeOK'
  <2> DEFINE left == dir[TempPath(w)]
             i == IF left = NoInode THEN save[w] ELSE left
  <2>1. i \in Inodes /\ save[w] \in Inodes
    BY <1>0, TempPaths DEF StorageType, WriterType, Dirs, Ids
  <2>2. /\ content' = [content EXCEPT ![i] = [of |-> save[w], part |-> "some"]]
        /\ synced' = synced \ {i} /\ fd' = [fd EXCEPT ![w] = i]
    BY <1>5 DEF Create
  <2>7. \/ UNCHANGED <<dir, dirs, news>>
        \/ SetDir([dir EXCEPT ![TempPath(w)] = i]) /\ news' = Tell(news, DirChanged)
    BY <1>5 DEF Create
  <2> HIDE DEF i
  <2>3. dir' \in Dirs /\ dirs' \subseteq Dirs /\ dir' \in dirs'
    BY <1>0, <2>1, <2>7, TempPaths, DirType DEF Ids
  <2>4. news' \in Seq(News)
    BY <1>3, <2>7
  <2>5. content' \in [Inodes -> [of : Inodes, part : {"some", "whole"}]] /\ synced' \subseteq Inodes
    BY <1>0, <2>1, <2>2 DEF StorageType
  <2>6. WriterType'
    BY <1>0, <1>5, <2>1, <2>2 DEF Create, WriterType, Goto, Ids
  <2> QED
    BY <1>0, <1>5, <2>3, <2>4, <2>5, <2>6 DEF Create, TypeOK, StorageType, WatchType
<1>6. ASSUME NEW w \in Writers, CreateFails(w) PROVE TypeOK'
  BY <1>0, <1>6, ReturnType DEF CreateFails, TypeOK, StorageType, WatchType
<1>7. ASSUME NEW w \in Writers, Write(w) PROVE TypeOK'
  <2>1. content' \in [Inodes -> [of : Inodes, part : {"some", "whole"}]]
    BY <1>0, <1>7 DEF Write, StorageType, WriterType
  <2>2. WriterType'
    BY <1>0, <1>7 DEF Write, WriterType, Goto
  <2> QED
    BY <1>0, <1>7, <2>1, <2>2 DEF Write, TypeOK, StorageType, WatchType
<1>8. ASSUME NEW w \in Writers, Sync(w) PROVE TypeOK'
  <2>1. synced' \subseteq Inodes
    BY <1>0, <1>8, TempPaths DEF Sync, StorageType, WriterType, Dirs, Ids
  <2>2. WriterType'
    BY <1>0, <1>8 DEF Sync, WriterType, Goto
  <2> QED
    BY <1>0, <1>8, <2>1, <2>2 DEF Sync, TypeOK, StorageType, WatchType
<1>9. ASSUME NEW w \in Writers, Rename(w) PROVE TypeOK'
  <2>1. dir' \in Dirs /\ dirs' \subseteq Dirs /\ dir' \in dirs'
    BY <1>0, <1>9, TempPaths DEF Rename, StorageType, SetDir, Dirs
  <2>2. Tell(news, DirChanged) \in Seq(News) /\ dir[idx] \in Ids
    BY <1>0, <1>3, TempPaths DEF StorageType, Dirs
  <2>3. news' \in Seq(News)
    BY <1>9, <2>2, UnlinkedType DEF Rename
  <2>4. WriterType'
    BY <1>0, <1>9 DEF Rename, WriterType, Goto
  <2> QED
    BY <1>0, <1>9, <2>1, <2>3, <2>4 DEF Rename, TypeOK, StorageType, WatchType
<1>10. ASSUME NEW w \in Writers, Fail(w) PROVE TypeOK'
  <2>1. dir' \in Dirs /\ dirs' \subseteq Dirs /\ dir' \in dirs'
    BY <1>0, <1>10, TempPaths, DirType DEF Fail
  <2>2. news' \in Seq(News)
    BY <1>3, <1>10 DEF Fail
  <2>3. WriterType'
    BY <1>0, <1>10, ReturnType DEF Fail
  <2> QED
    BY <1>0, <1>10, <2>1, <2>2, <2>3 DEF Fail, TypeOK, StorageType, WatchType
<1>11. ASSUME NEW w \in Writers, SyncDir(w) PROVE TypeOK'
  <2>1. WriterType'
    BY <1>0, <1>11, ReturnType DEF SyncDir
  <2>2. StorageType'
    BY <1>0, <1>11 DEF SyncDir, StorageType
  <2> QED
    BY <1>0, <1>11, <2>1, <2>2 DEF SyncDir, TypeOK, WatchType
<1>12. CASE StartWatching
  <2>1. dir[idx] \in Ids
    BY <1>0, TempPaths DEF StorageType, Dirs
  <2> QED
    BY <1>0, <1>12, <2>1 DEF StartWatching, TypeOK, StorageType, WriterType, WatchType
<1>13. CASE Watcher
  <2>1. dir[idx] \in Ids /\ watched \in Ids
    BY <1>0, TempPaths DEF StorageType, WatchType, Dirs
  <2>2. \A files \in Ids : Rearm(files) => watched' \in Ids
    BY <2>1 DEF Rearm
  <2>3. watched' \in Ids
    BY <1>0, <1>13, <2>1, <2>2 DEF Watcher, OnFileChanged, OnDirectoryChanged
  <2>5. reload' \in BOOLEAN
    BY <1>0, <1>13 DEF Watcher, OnFileChanged, OnDirectoryChanged, WatchType
  <2>4. news' \in Seq(News)
    BY <1>0, <1>13, HeadAndTail DEF Watcher, WatchType
  <2> QED
    BY <1>0, <1>13, <2>3, <2>4, <2>5 DEF Watcher, TypeOK, StorageType, WriterType, WatchType
<1>14. CASE Reader
  <2>1. dir[idx] \in Ids
    BY <1>0, TempPaths DEF StorageType, Dirs
  <2>2. CASE BeginReload
    BY <1>0, <2>2 DEF BeginReload, TypeOK, StorageType, WriterType, WatchType
  <2>3. CASE OpenIndex
    <3>0. CASE dir[idx] = NoInode
      BY <1>0, <2>3, <3>0 DEF OpenIndex, TypeOK, StorageType, WriterType, WatchType
    <3>1. CASE dir[idx] \in Inodes
      <4>1. dir[idx] # NoInode
        BY <3>1, InodesAre
      <4> QED
        BY <1>0, <2>3, <3>1, <4>1 DEF OpenIndex, TypeOK, StorageType, WriterType, WatchType
    <3> QED
      BY <2>1, <3>0, <3>1 DEF Ids
  <2>4. CASE ReadIndex
    <3>1. reader = "read" /\ held \in Ids /\ news \in Seq(News)
      BY <1>0, <2>4 DEF ReadIndex, WatchType, Ids
    <3>2. news' \in Seq(News)
      BY <2>4, <3>1, TellType, NewsAre DEF ReadIndex
    <3>3. reader' = "idle" /\ held' = NoInode
      BY <2>4 DEF ReadIndex
    <3>4. UNCHANGED <<storage, writer, begun, watch, reload>>
      BY <2>4 DEF ReadIndex
    <3>5. WatchType'
      BY <1>0, <3>2, <3>3, <3>4 DEF WatchType
    <3> QED
      BY <1>0, <3>4, <3>5 DEF TypeOK, StorageType, WriterType
  <2> QED
    BY <1>14, <2>2, <2>3, <2>4 DEF Reader
<1>15. ASSUME NEW d, NewWindow(d) PROVE WatchType'
  BY <1>0, <1>15, EmptySeq DEF NewWindow, WatchType
<1>16. ASSUME NEW w \in Writers, Kill(w) PROVE TypeOK'
  <2>1. WriterType'
    BY <1>0, <1>16, ReturnType DEF Kill, WriterType
  <2>2. WatchType'
    BY <1>0, <1>15, <1>16 DEF Kill, WatchType
  <2> QED
    BY <1>0, <1>16, <2>1, <2>2 DEF Kill, TypeOK, StorageType
<1>17. CASE PowerFailure
  <2>1. WatchType'
    BY <1>15, <1>17 DEF PowerFailure
  <2>2. WriterType'
    BY <1>0, <1>17, InodesAre DEF PowerFailure, WriterType
  <2>3. content' \in [Inodes -> [of : Inodes, part : {"some", "whole"}]]
    <3>1. PICK torn : content' = [i \in Inodes |-> IF i \in torn THEN [content[i] EXCEPT !.part = "some"]
                                                                ELSE content[i]]
      BY <1>17 DEF PowerFailure
    <3>2. \A i \in Inodes : [content[i] EXCEPT !.part = "some"] \in [of : Inodes, part : {"some", "whole"}]
      BY <1>0 DEF StorageType
    <3> QED
      BY <1>0, <3>1, <3>2 DEF StorageType
  <2>4. StorageType'
    BY <1>0, <1>17, <2>3 DEF PowerFailure, StorageType
  <2> QED
    BY <2>1, <2>2, <2>4 DEF TypeOK
<1> QED
  BY <1>1, <1>2, <1>4, <1>5, <1>6, <1>7, <1>8, <1>9, <1>10, <1>11, <1>12, <1>13, <1>14, <1>16, <1>17
     DEF Next, Saving

-----------------------------------------------------------------------------
(* The file and the temporary files.                                       *)

LEMMA FileInit == Init => FileInv
<1> SUFFICES ASSUME Init PROVE FileInv
  OBVIOUS
<1>1. \A n \in Names : dir[n] \in {0, NoInode} /\ (n # idx => dir[n] = NoInode)
  BY DEF Init
<1>2. StorageInv
  <2>1. idx \in Names /\ dirs = {dir} /\ synced = {0} /\ content[0].part = "whole"
    BY InodesAre, TempPaths DEF Init
  <2>2. \A n \in Names : dir[n] \in Inodes => dir[n] = 0 /\ n = idx
    BY <1>1, InodesAre
  <2>3. \A m, n \in Names : m # n /\ dir[m] \in Inodes => dir[m] # dir[n]
    BY <1>1, <2>2, InodesAre
  <2> QED
    BY <2>1, <2>2, <2>3 DEF StorageInv
<1>3. WriterInv /\ FreshInv
  BY <1>1, InodesAre DEF Init, WriterInv, FreshInv
<1> QED
  BY <1>2, <1>3 DEF FileInv

\* A writer's temporary name is removed, or nothing is; what a power failure
\* may leave is what it might have left, and what there is now.
LEMMA TempRemoved ==
    ASSUME TypeOK, FileInv, NEW w \in Writers,
           dir' \in {dir, [dir EXCEPT ![TempPath(w)] = NoInode]},
           dirs' \subseteq dirs \cup {dir'},
           UNCHANGED <<content, synced>>
    PROVE  /\ StorageInv'
           /\ \A n \in Names \ {TempPath(w)} : dir'[n] = dir[n]
           /\ \A d \in dirs' : \A n \in Names : d[n] \in Inodes => \E e \in dirs : e[n] = d[n]
<1>0. StorageType /\ StorageInv
  BY DEF TypeOK, FileInv
<1>1. /\ dir \in dirs
      /\ \A n \in Names : dir'[n] = dir[n] \/ (n = TempPath(w) /\ dir'[n] = NoInode)
      /\ dir'[idx] = dir[idx] /\ idx \in Names
      /\ \A n \in Names \ {TempPath(w)} : dir'[n] = dir[n]
  <2>1. dir \in dirs /\ dir \in Dirs /\ TempPath(w) \in Names \ {idx}
    BY <1>0, TempPaths DEF StorageType
  <2>2. CASE dir' = dir
    BY <2>1, <2>2, TempPaths
  <2>3. CASE dir' = [dir EXCEPT ![TempPath(w)] = NoInode]
    BY <2>1, <2>3, TempPaths DEF Dirs
  <2> QED
    BY <2>2, <2>3
<1>2. \A n \in Names : dir'[n] \in Inodes => dir'[n] = dir[n]
  BY <1>1, InodesAre
<1>3. \A d \in dirs' : d \in dirs \/ d = dir'
  OBVIOUS
<1>4. \A d \in dirs' : d[idx] \in Inodes => content'[d[idx]].part = "whole" /\ d[idx] \in synced'
  BY <1>0, <1>1, <1>3 DEF StorageInv
<1>5. \A d \in dirs' : \A m, n \in Names : m # n /\ d[m] \in Inodes => d[m] # d[n]
  <2> SUFFICES ASSUME NEW m \in Names, NEW n \in Names, m # n, dir'[m] \in Inodes
               PROVE  dir'[m] # dir'[n]
    BY <1>0, <1>3 DEF StorageInv
  <2>1. dir'[m] = dir[m] /\ dir[m] # dir[n]
    BY <1>0, <1>1, <1>2 DEF StorageInv
  <2> QED
    BY <1>1, <2>1, InodesAre
<1>6. \A d \in dirs' : \A n \in Names \ {idx} : dir'[n] \in Inodes => dir'[n] # d[idx]
  BY <1>0, <1>1, <1>2, <1>3 DEF StorageInv
<1> QED
  BY <1>1, <1>2, <1>3, <1>4, <1>5, <1>6 DEF StorageInv

\* A writer's inode is no index file, and is not another writer's.
LEMMA OwnInode ==
    ASSUME TypeOK, FileInv, NEW w \in Writers, NEW i \in Inodes,
           \/ i = dir[TempPath(w)]
           \/ i = save[w] /\ pc[w] = "create"
    PROVE  /\ \A d \in dirs : d[idx] # i
           /\ \A n \in Names \ {TempPath(w)} : dir[n] # i
           /\ \A v \in Writers : v # w /\ pc[v] \in {"write", "sync", "rename"} => fd[v] # i
           /\ \A v \in Writers : v # w /\ pc[v] \in {"unlink", "create"} => save[v] # i
           /\ i <= begun
<1>0. StorageInv /\ WriterInv /\ FreshInv /\ dir \in dirs
  BY DEF TypeOK, FileInv, StorageType
<1>1. \A d \in dirs : d[idx] # i
  BY <1>0, TempPaths DEF StorageInv, FreshInv
<1>2. \A n \in Names \ {TempPath(w)} : dir[n] # i
  BY <1>0, TempPaths DEF StorageInv, FreshInv
<1>3. \A v \in Writers : v # w /\ pc[v] \in {"write", "sync", "rename"} => fd[v] # i
  BY <1>0, <1>2, TempPaths DEF WriterInv
<1>4. \A v \in Writers : v # w /\ pc[v] \in {"unlink", "create"} => save[v] # i
  BY <1>0, TempPaths DEF FreshInv
<1>5. i <= begun
  BY <1>0, TempPaths DEF FreshInv
<1> QED
  BY <1>1, <1>2, <1>3, <1>4, <1>5

LEMMA FileStep == TypeOK /\ FileInv /\ [Next]_vars => FileInv'
<1> SUFFICES ASSUME TypeOK, FileInv, [Next]_vars PROVE FileInv'
  OBVIOUS
<1> USE DEF storage, writer, watch, loader, notSaving, notWatching, notLoading, Goto
<1>0. StorageType /\ WriterType /\ StorageInv /\ WriterInv /\ FreshInv
  BY DEF TypeOK, FileInv
<1>1. ASSUME UNCHANGED <<storage, writer, begun>> PROVE FileInv'
  BY <1>0, <1>1 DEF FileInv, StorageInv, WriterInv, FreshInv
<1>2. CASE UNCHANGED vars \/ StartWatching \/ Watcher \/ Reader
  BY <1>1, <1>2 DEF vars, StartWatching, Watcher, Reader, BeginReload, OpenIndex, ReadIndex
<1>3. ASSUME NEW w \in Writers, Begin(w) PROVE FileInv'
  <2>1. StorageInv'
    BY <1>0, <1>3 DEF Begin, StorageInv
  <2>2. WriterInv'
    BY <1>0, <1>3 DEF Begin, WriterInv, WriterType
  <2>3. /\ \A v \in Writers : save'[v] = IF v = w THEN begun + 1 ELSE save[v]
        /\ begun' = begun + 1 /\ begun \in Nat /\ \A v \in Writers : save[v] \in Nat
        /\ \A v \in Writers \ {w} : pc'[v] = pc[v]
    BY <1>0, <1>3, InodesAre DEF Begin, WriterType
  <2>4. \A d \in dirs : \A n \in Names : d[n] \in Inodes => d[n] <= begun /\ d[n] \in Nat
    BY <1>0, InodesAre DEF FreshInv
  <2>5. \A d \in dirs : \A n \in Names : d[n] # begun + 1
    <3>1. begun + 1 \in Inodes
      BY <1>0, <1>3, BoundsAssumption DEF Begin, WriterType, Inodes
    <3> QED
      BY <2>3, <2>4, <3>1
  <2>6. FreshInv'
    BY <1>0, <1>3, <2>3, <2>4, <2>5 DEF FreshInv, Begin
  <2> QED
    BY <2>1, <2>2, <2>6 DEF FileInv
<1>4. ASSUME NEW w \in Writers, Unlink(w) PROVE FileInv'
  <2>1. /\ StorageInv'
        /\ \A n \in Names \ {TempPath(w)} : dir'[n] = dir[n]
        /\ \A d \in dirs' : \A n \in Names : d[n] \in Inodes => \E e \in dirs : e[n] = d[n]
    BY <1>4, TempRemoved DEF Unlink, SetDir
  <2>2. \A v \in Writers : pc'[v] = IF v = w THEN "create" ELSE pc[v]
    BY <1>0, <1>4 DEF Unlink, WriterType
  <2>3. UNCHANGED <<fd, save, begun, content, synced>> /\ pc[w] = "unlink"
    BY <1>4 DEF Unlink
  <2>4. WriterInv'
    BY <1>0, <2>1, <2>2, <2>3, TempPaths DEF WriterInv
  <2>5. FreshInv'
    BY <1>0, <2>1, <2>2, <2>3 DEF FreshInv, WriterType
  <2> QED
    BY <2>1, <2>4, <2>5 DEF FileInv
<1>5. ASSUME NEW w \in Writers, NEW result, Return(w, result), UNCHANGED begun,
             dir' \in {dir, [dir EXCEPT ![TempPath(w)] = NoInode]},
             dirs' \subseteq dirs \cup {dir'},
             UNCHANGED <<content, synced>>
      PROVE  FileInv'
  <2>1. /\ StorageInv'
        /\ \A n \in Names \ {TempPath(w)} : dir'[n] = dir[n]
        /\ \A d \in dirs' : \A n \in Names : d[n] \in Inodes => \E e \in dirs : e[n] = d[n]
    BY <1>5, TempRemoved
  <2>2. \A v \in Writers : /\ pc'[v] = IF v = w THEN "idle" ELSE pc[v]
                           /\ fd'[v] = IF v = w THEN NoInode ELSE fd[v]
                           /\ save'[v] = IF v = w THEN 0 ELSE save[v]
    BY <1>0, <1>5 DEF Return, WriterType
  <2>3. WriterInv'
    BY <1>0, <1>5, <2>1, <2>2, TempPaths DEF WriterInv
  <2>4. begun \in Nat
    BY <1>0, InodesAre DEF WriterType
  <2>5. FreshInv'
    BY <1>0, <1>5, <2>1, <2>2, <2>4 DEF FreshInv, WriterType
  <2> QED
    BY <2>1, <2>3, <2>5 DEF FileInv
<1>6. ASSUME NEW w \in Writers, CreateFails(w) \/ Fail(w) \/ SyncDir(w) \/ Kill(w) PROVE FileInv'
  <2>1. dir \in dirs
    BY <1>0 DEF StorageType
  <2> QED
    BY <1>5, <1>6, <2>1 DEF CreateFails, Fail, SyncDir, SetDir, Kill
<1>7. ASSUME NEW w \in Writers, Create(w) PROVE FileInv'
  <2> DEFINE i == IF dir[TempPath(w)] = NoInode THEN save[w] ELSE dir[TempPath(w)]
  <2>1. i \in Inodes /\ (i = dir[TempPath(w)] \/ (i = save[w] /\ pc[w] = "create"))
    BY <1>0, <1>7, TempPaths DEF Create, StorageType, WriterType, Dirs, Ids
  <2>2. /\ content' = [content EXCEPT ![i] = [of |-> save[w], part |-> "some"]]
        /\ synced' = synced \ {i} /\ fd' = [fd EXCEPT ![w] = i]
        /\ pc' = [pc EXCEPT ![w] = "write"] /\ UNCHANGED <<save, begun>>
    BY <1>7 DEF Create
  <2>3. dir' \in {dir, [dir EXCEPT ![TempPath(w)] = i]} /\ dirs' = dirs \cup {dir'}
    BY <1>0, <1>7 DEF Create, SetDir, StorageType
  <2>4. dir'[TempPath(w)] = i
    BY <1>0, <1>7, TempPaths DEF Create, SetDir, StorageType, Dirs
  <2> HIDE DEF i
  <2>5. /\ \A d \in dirs : d[idx] # i
        /\ \A n \in Names \ {TempPath(w)} : dir[n] # i
        /\ \A v \in Writers : v # w /\ pc[v] \in {"write", "sync", "rename"} => fd[v] # i
        /\ \A v \in Writers : v # w /\ pc[v] \in {"unlink", "create"} => save[v] # i
        /\ i <= begun
    BY <2>1, OwnInode
  <2>6. /\ \A n \in Names : dir'[n] = IF n = TempPath(w) THEN i ELSE dir[n]
        /\ dir'[idx] = dir[idx] /\ idx \in Names /\ dir \in dirs
    BY <1>0, <2>3, <2>4, TempPaths DEF StorageType, Dirs
  <2>7. \A d \in dirs' : d \in dirs \/ d = dir'
    BY <2>3
  <2>8. /\ \A j \in Inodes \ {i} : content'[j] = content[j] /\ (j \in synced => j \in synced')
        /\ \A v \in Writers : /\ pc'[v] = IF v = w THEN "write" ELSE pc[v]
                              /\ fd'[v] = IF v = w THEN i ELSE fd[v]
    BY <1>0, <2>1, <2>2 DEF StorageType, WriterType
  <2>9. StorageInv'
    <3>1. \A d \in dirs' : d[idx] \in Inodes => content'[d[idx]].part = "whole" /\ d[idx] \in synced'
      BY <1>0, <2>5, <2>6, <2>7, <2>8 DEF StorageInv
    <3>2. \A d \in dirs' : \A m, n \in Names : m # n /\ d[m] \in Inodes => d[m] # d[n]
      BY <1>0, <2>5, <2>6, <2>7 DEF StorageInv
    <3>3. \A d \in dirs' : \A n \in Names \ {idx} : dir'[n] \in Inodes => dir'[n] # d[idx]
      BY <1>0, <2>5, <2>6, <2>7 DEF StorageInv
    <3> QED
      BY <3>1, <3>2, <3>3 DEF StorageInv
  <2>10. WriterInv'
    BY <1>0, <2>1, <2>5, <2>6, <2>8, TempPaths DEF WriterInv
  <2>11. FreshInv'
    BY <1>0, <2>2, <2>5, <2>6, <2>7, <2>8 DEF FreshInv
  <2> QED
    BY <2>9, <2>10, <2>11 DEF FileInv
<1>8. ASSUME NEW w \in Writers, Write(w) PROVE FileInv'
  <2>1. /\ fd[w] \in Inodes /\ fd[w] = dir[TempPath(w)]
        /\ \A d \in dirs : d[idx] # fd[w]
        /\ \A v \in Writers : v # w /\ pc[v] \in {"write", "sync", "rename"} => fd[v] # fd[w]
    BY <1>0, <1>8, OwnInode DEF Write, WriterInv
  <2>2. /\ \A j \in Inodes \ {fd[w]} : content'[j] = content[j] /\ (j \in synced => j \in synced')
        /\ \A v \in Writers : pc'[v] = IF v = w THEN "sync" ELSE pc[v]
        /\ content'[fd[w]].part = "whole"
        /\ pc[w] = "write" /\ UNCHANGED <<dir, dirs, fd, save, begun>>
    BY <1>0, <1>8, <2>1 DEF Write, StorageType, WriterType
  <2>3. StorageInv'
    BY <1>0, <2>1, <2>2 DEF StorageInv
  <2>4. WriterInv'
    BY <1>0, <2>1, <2>2 DEF WriterInv
  <2>5. FreshInv'
    BY <1>0, <2>2 DEF FreshInv
  <2> QED
    BY <2>3, <2>4, <2>5 DEF FileInv
<1>9. ASSUME NEW w \in Writers, Sync(w) PROVE FileInv'
  <2>1. /\ synced' = synced \cup {fd[w]} /\ UNCHANGED <<dir, dirs, content, fd, save, begun>>
        /\ \A v \in Writers : pc'[v] = IF v = w THEN "rename" ELSE pc[v]
        /\ pc[w] = "sync"
    BY <1>0, <1>9 DEF Sync, WriterInv, WriterType
  <2>2. StorageInv'
    BY <1>0, <2>1 DEF StorageInv
  <2>3. WriterInv'
    BY <1>0, <2>1 DEF WriterInv
  <2>4. FreshInv'
    BY <1>0, <2>1 DEF FreshInv
  <2> QED
    BY <2>2, <2>3, <2>4 DEF FileInv
<1>10. ASSUME NEW w \in Writers, Rename(w) PROVE FileInv'
  <2> DEFINE t == dir[TempPath(w)]
  <2>1. t \in Inodes /\ content[t].part = "whole" /\ t \in synced
    BY <1>0, <1>10 DEF Rename, WriterInv
  <2>2. /\ \A n \in Names : dir'[n] = IF n = idx THEN t ELSE IF n = TempPath(w) THEN NoInode ELSE dir[n]
        /\ \A d \in dirs' : d \in dirs \/ d = dir'
        /\ dir \in dirs /\ dir'[idx] = t
    BY <1>0, <1>10, TempPaths DEF Rename, SetDir, StorageType, Dirs
  <2>3. \A v \in Writers : pc'[v] = IF v = w THEN "syncdir" ELSE pc[v]
    BY <1>0, <1>10 DEF Rename, WriterType
  <2>4. UNCHANGED <<content, synced, fd, save, begun>>
    BY <1>10 DEF Rename
  <2>5. /\ \A n \in Names \ {TempPath(w)} : dir[n] # t
        /\ \A d \in dirs : d[idx] # t
    BY <2>1, OwnInode
  <2> HIDE DEF t
  <2>6. StorageInv'
    <3>1. \A d \in dirs' : d[idx] \in Inodes => content'[d[idx]].part = "whole" /\ d[idx] \in synced'
      BY <1>0, <2>1, <2>2, <2>4 DEF StorageInv
    <3>2. \A d \in dirs' : \A m, n \in Names : m # n /\ d[m] \in Inodes => d[m] # d[n]
      <4> SUFFICES ASSUME NEW m \in Names, NEW n \in Names, m # n, dir'[m] \in Inodes
                   PROVE  dir'[m] # dir'[n]
        BY <1>0, <2>2 DEF StorageInv
      <4>1. \A p \in Names \ {idx} : dir'[p] \in Inodes => p # TempPath(w) /\ dir'[p] = dir[p]
        BY <2>2, InodesAre
      <4>2. CASE m = idx
        BY <2>1, <2>2, <2>5, <4>1, <4>2
      <4>3. CASE m # idx /\ n = idx
        BY <2>1, <2>2, <2>5, <4>1, <4>3
      <4>4. CASE m # idx /\ n # idx
        BY <1>0, <2>2, <4>1, <4>4, InodesAre DEF StorageInv
      <4> QED
        BY <4>2, <4>3, <4>4
    <3>3. \A d \in dirs' : \A n \in Names \ {idx} : dir'[n] \in Inodes => dir'[n] # d[idx]
      BY <1>0, <2>2, <2>5, InodesAre DEF StorageInv
    <3> QED
      BY <3>1, <3>2, <3>3 DEF StorageInv
  <2>7. WriterInv'
    BY <1>0, <2>2, <2>3, <2>4, TempPaths DEF WriterInv
  <2>8. \A d \in dirs' : \A n \in Names : d[n] \in Inodes => \E e \in dirs : \E m \in Names : e[m] = d[n]
    BY <2>2, TempPaths, InodesAre DEF t
  <2>9. FreshInv'
    <3>1. begun \in Nat /\ \A v \in Writers : save[v] \in Inodes
      BY <1>0, InodesAre DEF WriterType
    <3> QED
      BY <1>0, <2>3, <2>4, <2>8, <3>1 DEF FreshInv
  <2> QED
    BY <2>6, <2>7, <2>9 DEF FileInv
<1>11. CASE PowerFailure
  <2>1. PICK d \in dirs : dir' = d /\ dirs' = {d}
    BY <1>11 DEF PowerFailure
  <2>2. \A i \in synced : content'[i] = content[i]
    BY <1>0, <1>11 DEF PowerFailure, StorageType
  <2>3. /\ synced' = Inodes /\ UNCHANGED begun
        /\ \A w \in Writers : pc'[w] = "idle" /\ save'[w] = 0
    BY <1>11 DEF PowerFailure
  <2>4. StorageInv'
    BY <1>0, <2>1, <2>2, <2>3, TempPaths DEF StorageInv
  <2>5. WriterInv'
    BY <2>3 DEF WriterInv
  <2>6. FreshInv'
    BY <1>0, <2>1, <2>3, InodesAre DEF FreshInv, WriterType
  <2> QED
    BY <2>4, <2>5, <2>6 DEF FileInv
<1> QED
  BY <1>2, <1>3, <1>4, <1>6, <1>7, <1>8, <1>9, <1>10, <1>11 DEF Next, Saving

-----------------------------------------------------------------------------
(* The watcher and the loads.                                              *)

SeenInv == WatchInv /\ LoadInv

\* What is told when the watched inode is renamed over.
LEMMA UnlinkedTells ==
    ASSUME NEW queue \in Seq(News), NEW i \in Ids
    PROVE  /\ \A k \in 1..Len(queue) : \E j \in 1..Len(Unlinked(queue, i)) :
                  Unlinked(queue, i)[j] = queue[k]
           /\ watching /\ i \in Inodes /\ i = watched =>
                  /\ \E j \in 1..Len(Unlinked(queue, i)) :
                         Unlinked(queue, i)[j] = [kind |-> "changed", inode |-> i]
                  /\ \/ held = i
                     \/ \E j \in 1..Len(Unlinked(queue, i)) :
                            Unlinked(queue, i)[j] = [kind |-> "gone", inode |-> i]
<1> DEFINE linked == Tell(queue, [kind |-> "changed", inode |-> i])
           gone   == Tell(linked, [kind |-> "gone", inode |-> i])
<1>0. [kind |-> "changed", inode |-> i] \in News /\ [kind |-> "gone", inode |-> i] \in News
  BY NewsAre
<1>1. /\ linked \in Seq(News)
      /\ \A k \in 1..Len(queue) : \E j \in 1..Len(linked) : linked[j] = queue[k]
      /\ watching => \E j \in 1..Len(linked) : linked[j] = [kind |-> "changed", inode |-> i]
  BY <1>0, TellType, TellTells
<1> HIDE DEF linked
<1>2. /\ \A k \in 1..Len(linked) : \E j \in 1..Len(gone) : gone[j] = linked[k]
      /\ watching => \E j \in 1..Len(gone) : gone[j] = [kind |-> "gone", inode |-> i]
  BY <1>0, <1>1, TellTells
<1> HIDE DEF gone
<1>3. CASE i = NoInode \/ i # watched
  BY <1>3, InodesAre DEF Unlinked
<1>4. CASE i # NoInode /\ i = watched /\ held = i
  <2>1. Unlinked(queue, i) = linked
    BY <1>4 DEF Unlinked, linked
  <2> QED
    BY <1>1, <1>4, <2>1
<1>5. CASE i # NoInode /\ i = watched /\ held # i
  <2>1. Unlinked(queue, i) = gone
    BY <1>5 DEF Unlinked, linked, gone
  <2> QED
    BY <1>1, <1>2, <1>5, <2>1
<1> QED
  BY <1>3, <1>4, <1>5

\* A step that leaves the file, the watcher and the loads alone.
LEMMA SeenAside ==
    ASSUME WatchType, SeenInv, dir'[idx] = dir[idx], VersionIn(dir[idx])' = VersionIn(dir[idx]),
           UNCHANGED <<watch, reload, loader>>, news' \in {news, Tell(news, DirChanged)}
    PROVE  SeenInv'
<1> USE DEF watch, loader
<1>1. \A i \in 1..Len(news) : \E j \in 1..Len(news') : news'[j] = news[i]
  <2>1. CASE news' = news
    BY <2>1
  <2>2. CASE news' = Tell(news, DirChanged)
    BY <2>2, TellTells, NewsAre DEF WatchType
  <2> QED
    BY <2>1, <2>2
<1>2. \A what : Told(what) => Told(what)'
  BY <1>1 DEF Told
<1>3. Coming => Coming'
  BY <1>1, <1>2 DEF Coming
<1>4. ~watching' => news' = <<>>
  BY DEF SeenInv, WatchInv, Tell
<1>5. WatchInv'
  BY <1>2, <1>4 DEF SeenInv, WatchInv
<1>6. LoadInv'
  BY <1>3 DEF SeenInv, LoadInv
<1> QED
  BY <1>5, <1>6 DEF SeenInv

\* A window that has just been started watches nothing.
LEMMA SeenAnew ==
    ASSUME NEW d, NewWindow(d)
    PROVE  SeenInv'
  BY InodesAre DEF NewWindow, SeenInv, WatchInv, LoadInv

LEMMA SeenInit == Init => SeenInv
  BY InodesAre DEF Init, SeenInv, WatchInv, LoadInv

\* A writer that does not rename leaves the index file and its version alone.
LEMMA SavingAside ==
    ASSUME TypeOK, FileInv, NEW w \in Writers,
           Begin(w) \/ Unlink(w) \/ Create(w) \/ CreateFails(w) \/ Write(w) \/ Sync(w) \/ Fail(w) \/ SyncDir(w)
    PROVE  /\ dir'[idx] = dir[idx]
           /\ \A d \in dirs : VersionIn(d[idx])' = VersionIn(d[idx])
           /\ \A d \in dirs : d[idx] \in synced => d[idx] \in synced'
           /\ UNCHANGED <<watch, reload, loader>> /\ news' \in {news, Tell(news, DirChanged)}
<1> USE DEF storage, writer, watch, loader, notSaving
<1>0. StorageType /\ WriterType /\ WriterInv /\ FreshInv /\ idx \in Names /\ TempPath(w) # idx
  BY TempPaths DEF TypeOK, FileInv
<1>1. dir'[idx] = dir[idx]
  BY <1>0, TempPaths DEF Begin, Unlink, Create, CreateFails, Write, Sync, Fail, SyncDir, SetDir, StorageType, Dirs
<1>2. ASSUME NEW i \in Inodes, \A d \in dirs : d[idx] # i,
             content' = [content EXCEPT ![i] = content'[i]], synced' = synced \ {i}
      PROVE  \A d \in dirs : VersionIn(d[idx])' = VersionIn(d[idx]) /\ (d[idx] \in synced => d[idx] \in synced')
  <2>1. \A j \in Inodes \ {i} : content'[j] = content[j]
    BY <1>0, <1>2 DEF StorageType
  <2>2. \A d \in dirs : d[idx] \in Ids
    BY <1>0 DEF StorageType, Dirs
  <2> QED
    BY <1>2, <2>1, <2>2 DEF VersionIn, Ids
<1>3. \A d \in dirs : VersionIn(d[idx])' = VersionIn(d[idx]) /\ (d[idx] \in synced => d[idx] \in synced')
  <2>1. CASE Create(w)
    <3> DEFINE i == IF dir[TempPath(w)] = NoInode THEN save[w] ELSE dir[TempPath(w)]
    <3>1. i \in Inodes /\ (i = dir[TempPath(w)] \/ (i = save[w] /\ pc[w] = "create"))
      BY <1>0, <2>1, TempPaths DEF Create, StorageType, WriterType, Dirs, Ids
    <3>2. content' = [content EXCEPT ![i] = [of |-> save[w], part |-> "some"]] /\ synced' = synced \ {i}
      BY <2>1 DEF Create
    <3> HIDE DEF i
    <3>3. content' = [content EXCEPT ![i] = content'[i]]
      BY <1>0, <3>1, <3>2 DEF StorageType
    <3> QED
      BY <1>2, <3>1, <3>2, <3>3, OwnInode
  <2>2. CASE Write(w)
    <3>1. fd[w] \in Inodes /\ fd[w] = dir[TempPath(w)]
      BY <1>0, <2>2 DEF Write, WriterInv
    <3>2. content' = [content EXCEPT ![fd[w]] = content'[fd[w]]] /\ synced' = synced \ {fd[w]}
      BY <1>0, <2>2, <3>1 DEF Write, StorageType
    <3> QED
      BY <1>2, <3>1, <3>2, OwnInode
  <2>3. CASE ~Create(w) /\ ~Write(w)
    <3>1. content' = content /\ synced \subseteq synced'
      BY <2>3 DEF Begin, Unlink, CreateFails, Sync, Fail, SyncDir
    <3> QED
      BY <3>1 DEF VersionIn
  <2> QED
    BY <2>1, <2>2, <2>3
<1>4. UNCHANGED <<watch, reload, loader>> /\ news' \in {news, Tell(news, DirChanged)}
  BY DEF Begin, Unlink, Create, CreateFails, Write, Sync, Fail, SyncDir
<1> QED
  BY <1>1, <1>3, <1>4

LEMMA SeenStep == TypeOK /\ FileInv /\ SeenInv /\ [Next]_vars => SeenInv'
<1> SUFFICES ASSUME TypeOK, FileInv, SeenInv, [Next]_vars PROVE SeenInv'
  OBVIOUS
<1> USE DEF storage, writer, watch, loader, notSaving, notWatching, notLoading
<1>0. /\ StorageType /\ WatchType /\ StorageInv /\ WatchInv /\ LoadInv
      /\ dir \in dirs /\ dir[idx] \in Ids /\ NoInode \notin Inodes
  BY TempPaths, InodesAre DEF TypeOK, FileInv, SeenInv, StorageType, Dirs
<1>1. CASE UNCHANGED vars
  BY <1>0, <1>1, SeenAside DEF vars, VersionIn
<1>2. ASSUME NEW w \in Writers,
             Begin(w) \/ Unlink(w) \/ Create(w) \/ CreateFails(w) \/ Write(w) \/ Sync(w) \/ Fail(w) \/ SyncDir(w)
      PROVE  SeenInv'
  <2>1. /\ dir'[idx] = dir[idx] /\ VersionIn(dir[idx])' = VersionIn(dir[idx])
        /\ UNCHANGED <<watch, reload, loader>> /\ news' \in {news, Tell(news, DirChanged)}
    BY <1>0, <1>2, SavingAside DEF VersionIn
  <2> QED
    BY <1>0, <2>1, SeenAside
<1>3. ASSUME NEW w \in Writers, Rename(w) PROVE SeenInv'
  <2>1. /\ dir'[idx] = dir[TempPath(w)] /\ dir'[idx] \in Inodes
    BY <1>0, <1>3, TempPaths DEF Rename, SetDir, StorageType, Dirs, Ids
  <2>2. /\ replaced' = watching /\ news' = Unlinked(Tell(news, DirChanged), dir[idx])
        /\ UNCHANGED <<watching, watched, reload, reader, held>>
    BY <1>3 DEF Rename
  <2>3. /\ \A i \in 1..Len(news) : \E j \in 1..Len(news') : news'[j] = news[i]
        /\ watching => \E j \in 1..Len(news') : news'[j] = DirChanged
        /\ watching /\ dir[idx] \in Inodes /\ dir[idx] = watched =>
                  /\ \E j \in 1..Len(news') : news'[j] = [kind |-> "changed", inode |-> watched]
                  /\ \/ held = watched
                     \/ \E j \in 1..Len(news') : news'[j] = [kind |-> "gone", inode |-> watched]
    <3>1. /\ Tell(news, DirChanged) \in Seq(News)
          /\ \A i \in 1..Len(news) : \E j \in 1..Len(Tell(news, DirChanged)) :
                 Tell(news, DirChanged)[j] = news[i]
          /\ watching => \E j \in 1..Len(Tell(news, DirChanged)) : Tell(news, DirChanged)[j] = DirChanged
      BY <1>0, TellType, TellTells, NewsAre DEF WatchType
    <3>2. /\ \A k \in 1..Len(Tell(news, DirChanged)) : \E j \in 1..Len(news') :
                 news'[j] = Tell(news, DirChanged)[k]
          /\ watching /\ dir[idx] \in Inodes /\ dir[idx] = watched =>
                  /\ \E j \in 1..Len(news') : news'[j] = [kind |-> "changed", inode |-> dir[idx]]
                  /\ \/ held = dir[idx]
                     \/ \E j \in 1..Len(news') : news'[j] = [kind |-> "gone", inode |-> dir[idx]]
      BY <1>0, <2>2, <3>1, UnlinkedTells
    <3> QED
      BY <3>1, <3>2
  <2>4. ~watching => news' = <<>>
    BY <1>0, <2>2 DEF WatchInv, Tell, Unlinked
  <2>5. watching /\ watched \in Inodes =>
            held = watched \/ Told([kind |-> "gone", inode |-> watched])' \/ watched = dir'[idx]
    BY <1>0, <2>2, <2>3 DEF WatchInv, Told
  <2>6. WatchInv'
    BY <1>0, <2>2, <2>3, <2>4, <2>5 DEF WatchInv, Told
  <2>7. watching /\ watched \in Inodes => Coming' \/ (reader = "read" /\ held = watched)
    <3> SUFFICES ASSUME watching, watched \in Inodes PROVE Coming' \/ (reader = "read" /\ held = watched)
      OBVIOUS
    <3>1. CASE watched = dir[idx]
      BY <1>0, <2>2, <2>3, <3>1 DEF Coming
    <3>2. CASE held = watched
      BY <1>0, <3>2 DEF WatchType
    <3>3. CASE Told([kind |-> "gone", inode |-> watched])
      BY <1>0, <2>2, <2>3, <3>3 DEF Coming, Told
    <3> QED
      BY <1>0, <3>1, <3>2, <3>3 DEF WatchInv
  <2>8. watching /\ watched = NoInode => Coming'
    BY <2>2, <2>3 DEF Coming, Told
  <2>9. LoadInv'
    BY <1>0, <2>1, <2>2, <2>7, <2>8 DEF LoadInv, WatchType, Ids
  <2> QED
    BY <2>6, <2>9 DEF SeenInv
<1>4. CASE StartWatching
  BY <1>0, <1>4 DEF StartWatching, SeenInv, WatchInv, LoadInv
<1>5. CASE Watcher
  <2> DEFINE h == Head(news)
  <2>1. /\ news # <<>> /\ news' = Tail(news) /\ watching
        /\ \A i \in 1..Len(news) : news[i] = h \/ \E j \in 1..Len(news') : news'[j] = news[i]
    BY <1>0, <1>5, HeadAndTail DEF Watcher, WatchType, WatchInv
  <2>2. \A what : Told(what) => h = what \/ Told(what)'
    BY <2>1 DEF Told
  <2>3. UNCHANGED <<dir, dirs, content, watching, replaced, reader, held, loaded>>
    BY <1>5 DEF Watcher
  <2>4. UNCHANGED VersionIn(dir[idx])
    BY <2>3 DEF VersionIn
  <2>5. CASE OnFileChanged /\ h.inode = watched
    <3>1. /\ reload' = TRUE
          /\ \/ watched' = dir[idx]
             \/ watched' = NoInode /\ dir[idx] = NoInode
             \/ watched' = watched /\ h.kind # "gone"
      BY <2>5 DEF OnFileChanged, Rearm, Rearms
    <3>2. watched' = NoInode => dir[idx] = NoInode
      BY <2>5 DEF OnFileChanged, Rearm, Rearms
    <3>3. WatchInv'
      BY <1>0, <2>1, <2>2, <2>3, <3>1, <3>2 DEF WatchInv
    <3> QED
      BY <1>0, <2>3, <3>1, <3>3 DEF SeenInv, LoadInv
  <2>6. CASE OnFileChanged /\ h.inode # watched
    <3>1. UNCHANGED <<watched, reload>> /\ h.kind # "dir"
      BY <2>6 DEF OnFileChanged
    <3>2. h # DirChanged /\ h # [kind |-> "gone", inode |-> watched]
      BY <2>6, <3>1 DEF DirChanged
    <3>3. Coming => Coming'
      BY <2>1, <2>2, <2>6, <3>1, <3>2 DEF Coming
    <3>4. WatchInv'
      BY <1>0, <2>1, <2>2, <2>3, <3>1, <3>2 DEF WatchInv
    <3>5. LoadInv'
      BY <1>0, <2>3, <2>4, <3>1, <3>3 DEF LoadInv
    <3> QED
      BY <3>4, <3>5 DEF SeenInv
  <2>7. CASE OnDirectoryChanged /\ Rearms(watched)
    <3>1. watched' = dir[idx] /\ reload' = TRUE /\ dir[idx] # NoInode
      BY <1>0, <2>7 DEF OnDirectoryChanged, Rearm, Rearms, WatchType
    <3> QED
      BY <1>0, <2>1, <2>3, <3>1 DEF SeenInv, WatchInv, LoadInv
  <2>8. CASE OnDirectoryChanged /\ ~Rearms(watched)
    <3>1. UNCHANGED <<watched, reload>> /\ h.kind = "dir" /\ (watched # NoInode \/ dir[idx] = NoInode)
      BY <1>0, <2>8 DEF OnDirectoryChanged, Rearm, Rearms, WatchType
    <3>2. h # [kind |-> "gone", inode |-> watched]
      BY <3>1
    <3>3. watched # NoInode /\ Coming => Coming'
      BY <2>1, <3>1 DEF Coming
    <3>4. WatchInv'
      BY <1>0, <2>1, <2>2, <2>3, <3>1, <3>2 DEF WatchInv
    <3>5. LoadInv'
      BY <1>0, <2>3, <2>4, <3>1, <3>3 DEF LoadInv
    <3> QED
      BY <3>4, <3>5 DEF SeenInv
  <2> QED
    BY <1>5, <2>5, <2>6, <2>7, <2>8 DEF Watcher
<1>6. CASE Reader
  <2>1. CASE BeginReload
    BY <1>0, <2>1 DEF BeginReload, SeenInv, WatchInv, LoadInv, Told
  <2>2. CASE OpenIndex
    <3>1. held = NoInode /\ held' = dir[idx] /\ UNCHANGED <<dir, watch, news, reload>>
      BY <1>0, <2>2 DEF OpenIndex, WatchType
    <3>2. WatchInv'
      BY <1>0, <3>1 DEF WatchInv, Told
    <3>3. dir[idx] \in Inodes => reader' = "read"
      BY <1>0, <2>2 DEF OpenIndex
    <3> QED
      BY <1>0, <3>1, <3>2, <3>3 DEF SeenInv, LoadInv
  <2>3. CASE ReadIndex
    <3>1. /\ reader = "read" /\ reader' = "idle" /\ held \in Inodes
          /\ UNCHANGED <<dir, content, watch, reload>>
      BY <1>0, <2>3 DEF ReadIndex, WatchType
    <3>2. /\ \A i \in 1..Len(news) : \E j \in 1..Len(news') : news'[j] = news[i]
          /\ watching /\ held = watched /\ held # dir[idx] =>
                 \E j \in 1..Len(news') : news'[j] = [kind |-> "gone", inode |-> watched]
      <4>1. [kind |-> "gone", inode |-> held] \in News /\ news \in Seq(News)
        BY <1>0, <3>1, NewsAre DEF WatchType, Ids
      <4>2. CASE held = watched /\ held # dir[idx]
        <5> DEFINE what == [kind |-> "gone", inode |-> held]
        <5>1. news' = Tell(news, what)
          BY <2>3, <4>2 DEF ReadIndex
        <5>2. what \in News /\ news \in Seq(News) /\ what = [kind |-> "gone", inode |-> watched]
          BY <4>1, <4>2
        <5> HIDE DEF what
        <5>3. /\ \A i \in 1..Len(news) : \E j \in 1..Len(Tell(news, what)) :
                     Tell(news, what)[j] = news[i]
              /\ watching => \E j \in 1..Len(Tell(news, what)) : Tell(news, what)[j] = what
          BY <5>2, TellTells
        <5>4. /\ \A i \in 1..Len(news) : \E j \in 1..Len(news') : news'[j] = news[i]
              /\ watching => \E j \in 1..Len(news') : news'[j] = what
          BY <5>1, <5>3
        <5> QED
          BY <5>2, <5>4
      <4>3. CASE ~(held = watched /\ held # dir[idx])
        BY <2>3, <4>3 DEF ReadIndex
      <4> QED
        BY <4>2, <4>3
    <3>3. ~watching => news' = <<>>
      BY <1>0, <2>3 DEF ReadIndex, WatchInv, Tell
    <3>4. (\A what : Told(what) => Told(what)') /\ (Coming => Coming')
      BY <3>1, <3>2 DEF Told, Coming
    <3>5. held = watched /\ held # dir[idx] => Told([kind |-> "gone", inode |-> watched])' /\ Coming'
      BY <1>0, <3>1, <3>2 DEF WatchInv, Told, Coming
    <3>6. WatchInv'
      BY <1>0, <3>1, <3>3, <3>4, <3>5 DEF WatchInv
    <3>7. held = dir[idx] => loaded' = VersionIn(dir[idx])'
      BY <1>0, <2>3, <3>1 DEF ReadIndex, StorageInv, VersionIn
    <3>8. LoadInv'
      BY <1>0, <3>1, <3>4, <3>5, <3>7 DEF LoadInv
    <3> QED
      BY <3>6, <3>8 DEF SeenInv
  <2> QED
    BY <1>6, <2>1, <2>2, <2>3 DEF Reader
<1>7. ASSUME NEW w \in Writers, Kill(w) PROVE SeenInv'
  <2>1. CASE w = Window
    BY <1>7, <2>1, SeenAnew DEF Kill
  <2>2. CASE w # Window
    BY <1>0, <1>7, <2>2, SeenAside DEF Kill, VersionIn
  <2> QED
    BY <2>1, <2>2
<1>8. CASE PowerFailure
  BY <1>8, SeenAnew DEF PowerFailure
<1> QED
  BY <1>1, <1>2, <1>3, <1>4, <1>5, <1>6, <1>7, <1>8 DEF Next, Saving

\* The invariant holds throughout.
THEOREM Invariance == Spec => []IInv
<1>1. Init => TypeOK /\ FileInv /\ SeenInv
  BY TypeInit, FileInit, SeenInit
<1>2. TypeOK /\ FileInv /\ SeenInv /\ [Next]_vars => (TypeOK /\ FileInv /\ SeenInv)'
  BY TypeStep, FileStep, SeenStep
<1>3. TypeOK /\ FileInv /\ SeenInv => IInv
  BY DEF IInv, SeenInv
<1> QED
  BY <1>1, <1>2, <1>3, PTL DEF Spec

\* However the saves of two processes, the notifications and the loads follow
\* one another (IndexFileWatcher, RunReload): when nothing is left to be told
\* and no reload is under way, the window has the version in the file.
THEOREM QuietIsCurrentHolds == Spec => []QuietIsCurrent
<1>1. IInv => QuietIsCurrent
  BY DEF IInv, LoadInv, QuietIsCurrent, Coming, Told
<1> QED
  BY <1>1, Invariance, PTL

-----------------------------------------------------------------------------
(* The writers implement ReplacedFile.                                     *)

File      == VersionIn(dir[idx])
Survivors == {Survivor(d[idx]) : d \in dirs}

PhaseOf(where) == IF where = "idle" THEN "idle" ELSE IF where = "syncdir" THEN "replaced" ELSE "saving"

Phase == [w \in Writers |-> PhaseOf(pc[w])]

\* What a power failure may leave is the version of a directory it may leave.
OfDirs == {VersionIn(d[idx]) : d \in dirs}

LEMMA SurvivorsAre == StorageType /\ StorageInv => Survivors = OfDirs
<1> SUFFICES ASSUME StorageType, StorageInv PROVE Survivors = OfDirs
  OBVIOUS
<1>1. \A d \in dirs : d[idx] \in Ids
  BY TempPaths DEF StorageType, Dirs
<1>2. \A d \in dirs : Survivor(d[idx]) = VersionIn(d[idx])
  BY <1>1 DEF StorageInv, Survivor, Ids
<1> QED
  BY <1>2 DEF Survivors, OfDirs

LEMMA SurvivorsNext == (StorageType /\ StorageInv)' => (Survivors = OfDirs)'
  BY SurvivorsAre, PTL

LEMMA PhaseMoves ==
    ASSUME WriterType, NEW w \in Writers, NEW where, pc' = [pc EXCEPT ![w] = where]
    PROVE  Phase' = [Phase EXCEPT ![w] = PhaseOf(where)]
  BY DEF Phase, WriterType

\* No writer changes the file before it renames its own.
LEMMA SavingKeepsFile ==
    ASSUME TypeOK, FileInv, TypeOK', FileInv', NEW w \in Writers,
           Begin(w) \/ Unlink(w) \/ Create(w) \/ CreateFails(w) \/ Write(w) \/ Sync(w) \/ Fail(w)
    PROVE  UNCHANGED <<File, Survivors>>
<1>1. /\ dir'[idx] = dir[idx]
      /\ \A d \in dirs : VersionIn(d[idx])' = VersionIn(d[idx])
  BY SavingAside
<1>2. dir \in dirs /\ (dirs' = dirs \/ dirs' = dirs \cup {dir'})
  BY DEF Begin, Unlink, Create, CreateFails, Write, Sync, Fail, SetDir, storage, TypeOK, StorageType
<1>3. Survivors = OfDirs /\ Survivors' = OfDirs'
  BY SurvivorsAre, SurvivorsNext DEF TypeOK, FileInv
<1>4. \A d \in dirs' : \E e \in dirs : VersionIn(d[idx])' = VersionIn(e[idx])
  BY <1>1, <1>2
<1>5. OfDirs' = OfDirs
  BY <1>1, <1>2, <1>4 DEF OfDirs
<1> QED
  BY <1>1, <1>2, <1>3, <1>5 DEF File

LEMMA PromiseInit == Init => Promise!Init
<1> SUFFICES ASSUME Init PROVE Promise!Init
  OBVIOUS
<1>1. dir[idx] \in {0, NoInode} /\ dirs = {dir}
  BY TempPaths DEF Init
<1>2. File \in Inodes \cup {NoInode}
  BY <1>1, InodesAre DEF Init, File, VersionIn
<1>3. Survivors = {File}
  BY <1>1, TypeInit, FileInit, SurvivorsAre DEF TypeOK, FileInv, File, OfDirs
<1>4. Phase = [w \in Writers |-> "idle"] /\ ok = [w \in Writers |-> FALSE]
  BY DEF Init, Phase, PhaseOf
<1> QED
  BY <1>2, <1>3, <1>4 DEF Promise!Init, File, Survivors, Phase, PhaseOf

\* Each step of the two writers, a crash or a power failure replaces the file
\* as promised, or leaves it alone.
LEMMA PromiseStep == TypeOK /\ FileInv /\ TypeOK' /\ FileInv' /\ [Next]_vars => [Promise!Next]_(Promise!vars)
<1> SUFFICES ASSUME TypeOK, FileInv, TypeOK', FileInv', [Next]_vars PROVE [Promise!Next]_(Promise!vars)
  OBVIOUS
<1> USE DEF storage, writer, watch, loader, notSaving, notWatching, notLoading, Goto
<1>0. /\ StorageType /\ WriterType /\ StorageInv /\ WriterInv /\ dir \in dirs
      /\ Survivors = OfDirs /\ Survivors' = OfDirs'
  BY SurvivorsAre, SurvivorsNext DEF TypeOK, FileInv, StorageType
<1>1. ASSUME UNCHANGED <<File, Survivors, Phase, ok>> PROVE [Promise!Next]_(Promise!vars)
  BY <1>1 DEF Promise!vars, File, Survivors, Phase, PhaseOf
<1>2. CASE UNCHANGED vars \/ StartWatching \/ Watcher \/ Reader
  <2>1. UNCHANGED <<storage, writer>>
    BY <1>2 DEF vars, StartWatching, Watcher, Reader, BeginReload, OpenIndex, ReadIndex
  <2> QED
    BY <1>1, <2>1 DEF File, Survivors, Survivor, VersionIn, Phase
<1>3. ASSUME NEW w \in Writers, Begin(w) PROVE [Promise!Next]_(Promise!vars)
  <2>1. UNCHANGED <<File, Survivors, ok>>
    BY <1>3, SavingKeepsFile DEF Begin
  <2>2. Phase[w] = "idle" /\ Phase' = [Phase EXCEPT ![w] = "saving"]
    <3>1. pc' = [pc EXCEPT ![w] = "unlink"] \/ pc' = [pc EXCEPT ![w] = "create"]
      BY <1>3 DEF Begin
    <3>2. PhaseOf("unlink") = "saving" /\ PhaseOf("create") = "saving"
      BY DEF PhaseOf
    <3> QED
      BY <1>0, <1>3, <3>1, <3>2, PhaseMoves DEF Begin, Phase, PhaseOf
  <2>3. Promise!Begin(w)
    BY <2>1, <2>2 DEF Promise!Begin, File, Survivors, Phase, PhaseOf
  <2> QED
    BY <2>3 DEF Promise!Next
<1>4. ASSUME NEW w \in Writers, Unlink(w) \/ Create(w) \/ Write(w) \/ Sync(w)
      PROVE  [Promise!Next]_(Promise!vars)
  <2>1. UNCHANGED <<File, Survivors, ok>>
    BY <1>4, SavingKeepsFile DEF Unlink, Create, Write, Sync
  <2>2. UNCHANGED Phase
    <3>1. PICK where \in {"create", "write", "sync", "rename"} :
              pc' = [pc EXCEPT ![w] = where] /\ pc[w] \in {"unlink", "create", "write", "sync"}
      BY <1>4 DEF Unlink, Create, Write, Sync
    <3>2. Phase[w] = "saving" /\ PhaseOf(where) = "saving"
      BY <3>1 DEF Phase, PhaseOf
    <3> QED
      BY <1>0, <3>1, <3>2, PhaseMoves DEF Phase
  <2> QED
    BY <1>1, <2>1, <2>2
<1>5. ASSUME NEW w \in Writers, pc[w] # "idle", Return(w, FALSE), UNCHANGED <<File, Survivors>>
      PROVE  [Promise!Next]_(Promise!vars)
  <2>1. Phase[w] # "idle" /\ Phase' = [Phase EXCEPT ![w] = "idle"] /\ ok' = [ok EXCEPT ![w] = FALSE]
    BY <1>0, <1>5, PhaseMoves DEF Return, Phase, PhaseOf
  <2>2. Promise!Fail(w)
    BY <1>5, <2>1 DEF Promise!Fail, File, Survivors, Phase, PhaseOf
  <2> QED
    BY <2>2 DEF Promise!Next
<1>6. ASSUME NEW w \in Writers, CreateFails(w) \/ Fail(w) PROVE [Promise!Next]_(Promise!vars)
  BY <1>5, <1>6, SavingKeepsFile DEF CreateFails, Fail
<1>7. ASSUME NEW w \in Writers, Rename(w) PROVE [Promise!Next]_(Promise!vars)
  <2>1. \A i : VersionIn(i)' = VersionIn(i)
    BY <1>7 DEF Rename, VersionIn
  <2>2. /\ dirs' = dirs \cup {dir'} /\ UNCHANGED ok
        /\ dir'[idx] = dir[TempPath(w)] /\ dir'[idx] \in Inodes
        /\ content[dir'[idx]].part = "whole"
    BY <1>0, <1>7, TempPaths DEF Rename, SetDir, WriterInv, StorageType, Dirs
  <2>3. File' \in Inodes
    BY <1>0, <1>7, <2>2, InodesAre DEF File, VersionIn, StorageType, Rename
  <2>4. Survivors' = Survivors \cup {File'}
    BY <1>0, <2>1, <2>2 DEF File, OfDirs
  <2>5. Phase[w] = "saving" /\ Phase' = [Phase EXCEPT ![w] = "replaced"]
    BY <1>0, <1>7, PhaseMoves DEF Rename, Phase, PhaseOf
  <2>6. Promise!Replace(w)
    BY <2>2, <2>3, <2>4, <2>5 DEF Promise!Replace, File, Survivors, Phase, PhaseOf
  <2> QED
    BY <2>6 DEF Promise!Next
<1>8. ASSUME NEW w \in Writers, SyncDir(w) PROVE [Promise!Next]_(Promise!vars)
  <2>1. pc[w] = "syncdir" /\ UNCHANGED <<dir, content, synced>>
    BY <1>8 DEF SyncDir
  <2>2. UNCHANGED File
    BY <2>1 DEF File, VersionIn
  <2>3. CASE dirs' = {dir} /\ Return(w, TRUE)
    <3>1. Phase[w] = "replaced" /\ Phase' = [Phase EXCEPT ![w] = "idle"] /\ ok' = [ok EXCEPT ![w] = TRUE]
      BY <1>0, <2>1, <2>3, PhaseMoves DEF Return, Phase, PhaseOf
    <3>2. Survivors' = {File}
      BY <1>0, <2>1, <2>3 DEF File, VersionIn, OfDirs
    <3>3. Promise!Succeed(w)
      BY <2>2, <3>1, <3>2 DEF Promise!Succeed, File, Survivors, Phase, PhaseOf
    <3> QED
      BY <3>3 DEF Promise!Next
  <2>4. CASE UNCHANGED dirs /\ Return(w, FALSE)
    BY <1>5, <2>1, <2>2, <2>4 DEF Survivors, Survivor, VersionIn
  <2> QED
    BY <1>8, <2>3, <2>4 DEF SyncDir
<1>9. ASSUME NEW w \in Writers, Kill(w) PROVE [Promise!Next]_(Promise!vars)
  <2>1. Return(w, ok[w] /\ pc[w] = "idle") /\ UNCHANGED storage
    BY <1>9 DEF Kill
  <2>2. UNCHANGED <<File, Survivors>>
    BY <2>1 DEF File, Survivors, Survivor, VersionIn
  <2>3. CASE pc[w] = "idle"
    BY <1>0, <1>1, <2>1, <2>2, <2>3 DEF Return, WriterType, Phase
  <2>4. CASE pc[w] # "idle"
    BY <1>0, <1>5, <2>1, <2>2, <2>4 DEF WriterType
  <2> QED
    BY <2>3, <2>4
<1>10. CASE PowerFailure
  <2>1. PICK d \in dirs : dir' = d /\ dirs' = {d}
    BY <1>10 DEF PowerFailure
  <2>2. \A i \in synced : content'[i] = content[i]
    BY <1>0, <1>10 DEF PowerFailure, StorageType
  <2>3. VersionIn(d[idx])' = VersionIn(d[idx])
    BY <1>0, <2>2, TempPaths DEF StorageInv, StorageType, Dirs, Ids, VersionIn
  <2>4. File' \in Survivors /\ Survivors' = {File'}
    BY <1>0, <2>1, <2>3 DEF File, OfDirs
  <2>5. Phase' = [w \in Writers |-> "idle"] /\ ok' = [w \in Writers |-> FALSE]
    BY <1>10 DEF PowerFailure, Phase, PhaseOf
  <2>6. Promise!PowerFailure
    BY <2>4, <2>5 DEF Promise!PowerFailure, File, Survivors, Phase, PhaseOf
  <2> QED
    BY <2>6 DEF Promise!Next
<1> QED
  BY <1>2, <1>3, <1>4, <1>6, <1>7, <1>8, <1>9, <1>10 DEF Next, Saving

\* A save of either process (WriteFileAtomically, ReplaceFileForRootWrite), in
\* some ten steps of which any may fail or be the last, puts one whole version
\* in the place of another in one step, and one that returned true is never
\* undone by a power failure.
THEOREM SaveKeepsItsPromise == Spec => SavePromise
<1>1. Init => Promise!Init
  BY PromiseInit
<1>2. IInv /\ IInv' /\ [Next]_vars => [Promise!Next]_(Promise!vars)
  BY PromiseStep DEF IInv
<1> QED
  BY <1>1, <1>2, Invariance, PTL DEF Spec, SavePromise, Promise!Spec
=============================================================================
