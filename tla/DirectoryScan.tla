---------------------------- MODULE DirectoryScan ----------------------------
(***************************************************************************)
(* WalkScanner::Scan: threads that share a queue of directories, each      *)
(* reading one directory at a time, reporting its entries and queueing its *)
(* subdirectories, until nobody has anything left to do.                   *)
(*                                                                         *)
(* A path is the sequence of its components, in canonical form. A thread    *)
(* that waits for the queue looks at it again every 5 ms, so that the      *)
(* condition variable, which only shortens the wait, is left out. Other    *)
(* programs may remove files while the scan runs; files that appear or     *)
(* move are not modelled.                                                  *)
(***************************************************************************)
EXTENDS Integers, Sequences, FiniteSets, SequencesExt

CONSTANTS
    Workers,     \* the threads, one per processor
    Entries,     \* every path there is at the start
    Kind,        \* of each: "dir", "file" or "link"
    Device,      \* the file system each is on
    Selected,    \* options.rootPaths
    Excluded,    \* options.excludedPaths
    MaxVanish    \* bound: removals by other programs

ASSUME WorkersAssumption == IsFiniteSet(Workers) /\ Workers # {}
ASSUME EntriesAssumption ==
    /\ \A p \in Entries : p \in Seq(STRING) /\ p # <<>>
    /\ \A p \in Entries : \A n \in 1..Len(p) : SubSeq(p, 1, n) \in Entries
    /\ Kind \in [Entries -> {"dir", "file", "link"}]
    /\ Device \in [Entries -> Nat]
ASSUME RootsAssumption == Selected \subseteq Entries
ASSUME ExcludedAssumption == Excluded \subseteq Seq(STRING) \ {<<>>}
ASSUME BoundAssumption == MaxVanish \in Nat

VARIABLES
    main,                      \* Scan itself: "seed", "join" or "returned"
    seeds,                     \* roots not looked at yet
    jobs, inFlight,            \* DirectoryQueue
    pc, job, unread, batch,    \* each thread: where it is, its directory, what it
                               \* has not read of it, what it has read and not handled
    emitted,                   \* how often onEntry was called for each path
    files,                     \* the paths that exist
    cancelToken

queue   == <<jobs, inFlight>>
threads == <<pc, job, unread, batch>>

vars == <<main, seeds, queue, threads, emitted, files, cancelToken>>

-----------------------------------------------------------------------------
(* Paths.                                                                  *)

IsPathUnderOrEqual(p, q) == IsPrefix(q, p)

IsPathExcluded(p) == \E e \in Excluded : IsPathUnderOrEqual(p, e)

\* The roots that lie below no other one.
CollapseRedundantRoots(roots) ==
    {r \in roots : \A s \in roots : IsPathUnderOrEqual(r, s) => s = r}

Roots == CollapseRedundantRoots(Selected)

Children(d) == {p \in files : Len(p) = Len(d) + 1 /\ IsPathUnderOrEqual(p, d)}

\* Mutant of Descends: mount points are entered like any directory.
DescendsEverywhere(p, dev) == Kind[p] = "dir"

\* A child on another device is a mount point: reported, not descended into
\* unless it is one of the roots.
Descends(p, dev) == Kind[p] = "dir" /\ (p \in Roots \/ Device[p] = dev)

NoJob == [path |-> <<>>, dev |-> 0]

-----------------------------------------------------------------------------
(* Scan, before the threads start and after.                               *)

notMain == <<pc, job, unread, batch, inFlight, files, cancelToken>>

\* Each root that exists, is not excluded and is no link: a directory is
\* queued, a file reported at once.
Seed(r) ==
    /\ main = "seed" /\ r \in seeds
    /\ seeds' = seeds \ {r}
    /\ LET taken == r \in files /\ ~IsPathExcluded(r)
       IN  /\ jobs' = IF taken /\ Kind[r] = "dir"
                      THEN Append(jobs, [path |-> r, dev |-> Device[r]]) ELSE jobs
           /\ emitted' = IF taken /\ Kind[r] = "file"
                         THEN [emitted EXCEPT ![r] = @ + 1] ELSE emitted
    /\ UNCHANGED <<notMain, main>>

StartThreads ==
    /\ main = "seed" /\ seeds = {}
    /\ main' = "join"
    /\ pc' = [w \in Workers |-> "pop"]
    /\ UNCHANGED <<seeds, queue, job, unread, batch, emitted, files, cancelToken>>

Join ==
    /\ main = "join" /\ \A w \in Workers : pc[w] = "exited"
    /\ main' = "returned"
    /\ UNCHANGED <<notMain, seeds, jobs, emitted>>

-----------------------------------------------------------------------------
(* The threads.                                                            *)

notWorkers == <<main, seeds, files, cancelToken>>

Goto(w, where) == pc' = [pc EXCEPT ![w] = where]

\* Pop, under the queue's lock: the first directory is taken and counted.
Pop(w) ==
    /\ pc[w] = "pop" /\ ~cancelToken /\ jobs # <<>>
    /\ job' = [job EXCEPT ![w] = Head(jobs)]
    /\ jobs' = Tail(jobs)
    /\ inFlight' = inFlight + 1
    /\ Goto(w, "open")
    /\ UNCHANGED <<notWorkers, unread, batch, emitted>>

\* Mutant of PopNothing: the directories being read are not waited for.
PopNothingQueued(w) ==
    /\ pc[w] = "pop"
    /\ cancelToken \/ jobs = <<>>
    /\ Goto(w, "exited")
    /\ UNCHANGED <<notWorkers, queue, job, unread, batch, emitted>>

\* Pop returns nothing, and the thread ends: no directory is queued and none
\* is being read, or the scan is cancelled. Otherwise it waits.
PopNothing(w) ==
    /\ pc[w] = "pop"
    /\ cancelToken \/ (jobs = <<>> /\ inFlight = 0)
    /\ Goto(w, "exited")
    /\ UNCHANGED <<notWorkers, queue, job, unread, batch, emitted>>

\* Mutant of Open: a directory that cannot be opened is never done with.
OpenOnly(w) ==
    /\ pc[w] = "open"
    /\ LET path == job[w].path
       IN  IF path \in files
           THEN unread' = [unread EXCEPT ![w] = Children(path)] /\ Goto(w, "read")
           ELSE UNCHANGED unread /\ Goto(w, "pop")
    /\ UNCHANGED <<notWorkers, queue, job, batch, emitted>>

\* ProcessDirectory; a directory that has gone cannot be opened.
Open(w) ==
    /\ pc[w] = "open"
    /\ LET path == job[w].path
       IN  IF path \in files
           THEN unread' = [unread EXCEPT ![w] = Children(path)] /\ Goto(w, "read")
           ELSE UNCHANGED unread /\ Goto(w, "done")
    /\ UNCHANGED <<notWorkers, queue, job, batch, emitted>>

\* getdents64 fills a buffer with some of the entries; the token is looked at
\* once per buffer.
Read(w) ==
    /\ pc[w] = "read" /\ batch[w] = {}
    /\ \/ /\ ~cancelToken
          /\ \E some \in SUBSET unread[w] \ {{}} :
                 /\ batch' = [batch EXCEPT ![w] = some]
                 /\ unread' = [unread EXCEPT ![w] = @ \ some]
          /\ UNCHANGED pc
       \/ /\ cancelToken \/ unread[w] = {}
          /\ unread' = [unread EXCEPT ![w] = {}]
          /\ Goto(w, "done")
          /\ UNCHANGED batch
    /\ UNCHANGED <<notWorkers, queue, job, emitted>>

\* An entry of the buffer: passed over if it has vanished, is a link or is
\* excluded; otherwise reported and, a directory, queued.
Handle(w, p) ==
    /\ pc[w] = "read" /\ p \in batch[w]
    /\ batch' = [batch EXCEPT ![w] = @ \ {p}]
    /\ LET taken == p \in files /\ Kind[p] # "link" /\ ~IsPathExcluded(p)
           dev   == job[w].dev
       IN  /\ emitted' = IF taken THEN [emitted EXCEPT ![p] = @ + 1] ELSE emitted
           /\ jobs' = IF taken /\ Descends(p, dev)
                      THEN Append(jobs, [path |-> p,
                                         dev  |-> IF p \in Roots THEN Device[p] ELSE dev])
                      ELSE jobs
    /\ UNCHANGED <<notWorkers, inFlight, pc, job, unread>>

Done(w) ==
    /\ pc[w] = "done"
    /\ inFlight' = inFlight - 1
    /\ job' = [job EXCEPT ![w] = NoJob]
    /\ Goto(w, "pop")
    /\ UNCHANGED <<notWorkers, jobs, unread, batch, emitted>>

-----------------------------------------------------------------------------
(* The caller and other programs.                                          *)

Cancel ==
    /\ main # "returned" /\ ~cancelToken
    /\ cancelToken' = TRUE
    /\ UNCHANGED <<main, seeds, queue, threads, emitted, files>>

\* A file, or a directory that is empty, is removed.
Vanish(p) ==
    /\ main # "returned" /\ p \in files /\ Children(p) = {}
    /\ Cardinality(Entries \ files) < MaxVanish
    /\ files' = files \ {p}
    /\ UNCHANGED <<main, seeds, queue, threads, emitted, cancelToken>>

-----------------------------------------------------------------------------
Init ==
    /\ main = "seed" /\ seeds = Roots
    /\ jobs = <<>> /\ inFlight = 0
    /\ pc = [w \in Workers |-> "idle"] /\ job = [w \in Workers |-> NoJob]
    /\ unread = [w \in Workers |-> {}] /\ batch = [w \in Workers |-> {}]
    /\ emitted = [p \in Entries |-> 0]
    /\ files = Entries
    /\ cancelToken = FALSE

Worker(w) ==
    \/ Pop(w) \/ PopNothing(w) \/ Open(w) \/ Read(w) \/ Done(w)
    \/ \E p \in Entries : Handle(w, p)

Main == StartThreads \/ Join \/ \E r \in Entries : Seed(r)

Returned == main = "returned" /\ UNCHANGED vars

Next ==
    \/ Main \/ Cancel \/ Returned
    \/ \E w \in Workers : Worker(w)
    \/ \E p \in Entries : Vanish(p)

Spec == Init /\ [][Next]_vars

\* The threads are scheduled; nobody need cancel.
FairSpec == Spec /\ WF_vars(Main) /\ \A w \in Workers : WF_vars(Worker(w))

-----------------------------------------------------------------------------
(* Properties.                                                             *)

Jobs == [path : Entries, dev : {Device[p] : p \in Entries}]

TypeOK ==
    /\ main \in {"seed", "join", "returned"} /\ seeds \subseteq Roots
    /\ jobs \in Seq(Jobs) /\ inFlight \in Nat
    /\ pc \in [Workers -> {"idle", "pop", "open", "read", "done", "exited"}]
    /\ job \in [Workers -> Jobs \cup {NoJob}]
    /\ unread \in [Workers -> SUBSET Entries] /\ batch \in [Workers -> SUBSET Entries]
    /\ emitted \in [Entries -> Nat]
    /\ files \subseteq Entries /\ cancelToken \in BOOLEAN

\* What a scan of some roots is to report, of the files of some moment: what
\* lies below a root, links and what is excluded left out, and what is on
\* another device than the root's only as far as the mount point itself.
Between(r, p) == {q \in Entries : q # p /\ IsPathUnderOrEqual(q, r) /\ IsPathUnderOrEqual(p, q)}

ScopeOf(roots) ==
    {p \in Entries :
        /\ Kind[p] # "link" /\ ~IsPathExcluded(p)
        /\ \E r \in roots :
            \/ p = r /\ Kind[r] = "file"
            \/ /\ r \in Between(r, p)
               /\ \A q \in Between(r, p) : Kind[q] = "dir" /\ Device[q] = Device[r]}

\* The scan is what it promises to be: nothing is reported twice, though the
\* roots may overlap, nothing out of scope, and nothing is missing when it
\* returns, whichever thread read which directory.
Promise == INSTANCE Scan WITH
    InScope <- ScopeOf(Roots), cancelled <- cancelToken, finished <- (main = "returned")

ScanPromise == Promise!Spec

\* A scan returns: no thread waits for ever for a directory that nobody reads.
ScanReturns == Promise!Returns

\* A thread ends only when no other one has, or is about to queue, a directory
\* for it: the last threads to finish are not left with all the work, and
\* inFlight_ is neither too high, which nobody would survive, nor too low.
NobodyLeavesEarly ==
    (\E w \in Workers : pc[w] = "exited") /\ ~cancelToken =>
        jobs = <<>> /\ \A w \in Workers : pc[w] \in {"pop", "exited"}

\* No directory is read twice or by two threads.
OneReaderEach ==
    \A v, w \in Workers : v # w /\ job[v] = job[w] => job[v] = NoJob

\* "Do not cross mount boundaries unless the mount is itself a selected root"
\* (indexed-plan.md): what lies on a mount that is selected is reported.
SelectedMountsAreScanned ==
    main = "returned" /\ ~cancelToken => \A p \in files \cap ScopeOf(Selected) : emitted[p] > 0
=============================================================================
