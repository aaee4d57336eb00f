------------------------- MODULE DirectoryScanProofs -------------------------
(***************************************************************************)
(* Proofs about DirectoryScan for any tree, any roots and any number of    *)
(* threads: type correctness, that no thread leaves early, and that the    *)
(* scan implements Scan.                                                   *)
(***************************************************************************)
EXTENDS DirectoryScan, FiniteSetTheorems, SequenceTheorems, TLAPS

-----------------------------------------------------------------------------
(* Paths: what is below what.                                              *)

LEMMA PathType ==
    ASSUME NEW p \in Entries
    PROVE  p \in Seq(STRING) /\ Len(p) \in Nat \ {0}
BY EntriesAssumption

\* A path is below another one that is the beginning of it.
LEMMA UnderIs ==
    ASSUME NEW p \in Entries, NEW q \in Entries
    PROVE  IsPathUnderOrEqual(p, q) <=> Len(q) <= Len(p) /\ q = SubSeq(p, 1, Len(q))
<1>1. SubSeq(q, 1, Len(q)) = q
  BY PathType, SubSeqFull
<1> QED
  BY <1>1 DEF IsPathUnderOrEqual, IsPrefix

LEMMA UnderReflexive ==
    ASSUME NEW p \in Entries
    PROVE  IsPathUnderOrEqual(p, p)
BY PathType DEF IsPathUnderOrEqual, IsPrefix

LEMMA UnderShorter ==
    ASSUME NEW p \in Entries, NEW q \in Entries, IsPathUnderOrEqual(p, q)
    PROVE  Len(q) <= Len(p) /\ (Len(q) = Len(p) => q = p)
<1>1. SubSeq(p, 1, Len(p)) = p
  BY PathType, SubSeqFull
<1> QED
  BY <1>1, UnderIs

\* The beginning of a beginning.
LEMMA ShortPrefix ==
    ASSUME NEW p \in Entries, NEW m \in 1..Len(p), NEW n \in 1..m
    PROVE  SubSeq(SubSeq(p, 1, m), 1, n) = SubSeq(p, 1, n)
<1>1. p \in Seq(STRING) /\ SubSeq(p, 1, m) \in Seq(STRING)
  BY EntriesAssumption, PathType
<1> QED
  BY <1>1, PathType, SubSeqOfSubSeq

\* Of two paths above the same one, the longer is below the shorter.
LEMMA UnderChain ==
    ASSUME NEW p \in Entries, NEW q \in Entries, NEW r \in Entries,
           IsPathUnderOrEqual(p, q), IsPathUnderOrEqual(p, r), Len(r) <= Len(q)
    PROVE  IsPathUnderOrEqual(q, r)
<1>1. q = SubSeq(p, 1, Len(q)) /\ r = SubSeq(p, 1, Len(r)) /\ Len(q) <= Len(p)
  BY UnderIs
<1>2. Len(q) \in 1..Len(p) /\ Len(r) \in 1..Len(q)
  BY <1>1, PathType
<1>3. SubSeq(SubSeq(p, 1, Len(q)), 1, Len(r)) = SubSeq(p, 1, Len(r))
  BY <1>2, ShortPrefix
<1> QED
  BY <1>1, <1>3, UnderIs

LEMMA UnderTransitive ==
    ASSUME NEW p \in Entries, NEW q \in Entries, NEW r \in Entries,
           IsPathUnderOrEqual(p, q), IsPathUnderOrEqual(q, r)
    PROVE  IsPathUnderOrEqual(p, r)
<1>1. q = SubSeq(p, 1, Len(q)) /\ r = SubSeq(q, 1, Len(r)) /\ Len(q) <= Len(p) /\ Len(r) <= Len(q)
  BY UnderIs
<1>2. Len(q) \in 1..Len(p) /\ Len(r) \in 1..Len(q)
  BY <1>1, PathType
<1>3. SubSeq(SubSeq(p, 1, Len(q)), 1, Len(r)) = SubSeq(p, 1, Len(r))
  BY <1>2, ShortPrefix
<1> QED
  BY <1>1, <1>2, <1>3, PathType, UnderIs

ChildOf(p, d) == Len(p) = Len(d) + 1 /\ IsPathUnderOrEqual(p, d)

\* The way from a path above it to p has a next step, which exists.
LEMMA NextBelow ==
    ASSUME NEW p \in Entries, NEW q \in Entries, IsPathUnderOrEqual(p, q), p # q
    PROVE  \E c \in Entries : c = SubSeq(p, 1, Len(q) + 1) /\ ChildOf(c, q) /\ IsPathUnderOrEqual(p, c)
<1> DEFINE c == SubSeq(p, 1, Len(q) + 1)
<1>1. Len(q) < Len(p) /\ Len(q) \in Nat /\ Len(p) \in Nat
  BY UnderShorter, PathType
<1>2. c \in Entries
  BY <1>1, EntriesAssumption
<1>3. Len(c) = Len(q) + 1
  <2>1. \A i \in 1..(Len(q) + 1) : p[i] \in STRING
    BY <1>1, PathType, ElementOfSeq
  <2> DEFINE n == Len(q) + 1
  <2>2. n \in Int /\ 1 <= n /\ \A i \in 1..n : p[i] \in STRING
    BY <1>1, <2>1
  <2> HIDE DEF n
  <2>3. Len(SubSeq(p, 1, n)) = n - 1 + 1
    BY <2>2, SubSeqProperties
  <2> QED
    BY <1>1, <2>3 DEF n
<1>4. IsPathUnderOrEqual(p, c)
  <2>1. Len(c) <= Len(p) /\ c = SubSeq(p, 1, Len(c))
    BY <1>1, <1>3
  <2> HIDE DEF c
  <2> QED
    BY <1>2, <2>1, UnderIs
<1>5. IsPathUnderOrEqual(c, q)
  <2>1. Len(q) <= Len(c)
    BY <1>1, <1>3
  <2> HIDE DEF c
  <2> QED
    BY <1>2, <1>4, <2>1, UnderChain
<1> QED
  BY <1>2, <1>3, <1>4, <1>5 DEF ChildOf

\* An entry has one parent.
LEMMA OneParent ==
    ASSUME NEW p \in Entries, NEW d \in Entries, NEW e \in Entries,
           ChildOf(p, d), ChildOf(p, e)
    PROVE  d = e
BY UnderIs, PathType DEF ChildOf

-----------------------------------------------------------------------------
(* Types, and the count of the queue.                                      *)

Busy == {"open", "read", "done"}

BusyWorkers == {w \in Workers : pc[w] \in Busy}

ScanType ==
    /\ main \in {"seed", "join", "returned"} /\ seeds \subseteq Roots
    /\ emitted \in [Entries -> Nat]
    /\ files \subseteq Entries /\ cancelToken \in BOOLEAN

ThreadType ==
    /\ jobs \in Seq(Jobs)
    /\ pc \in [Workers -> Busy \cup {"idle", "pop", "exited"}]
    /\ job \in [Workers -> Jobs \cup {NoJob}]
    /\ \A w \in Workers : pc[w] \in Busy <=> job[w] \in Jobs
    /\ unread \in [Workers -> SUBSET Entries] /\ batch \in [Workers -> SUBSET Entries]

\* Threads run between StartThreads and Join.
PhaseInv ==
    /\ main = "seed" => \A w \in Workers : pc[w] = "idle"
    /\ main # "seed" => seeds = {} /\ \A w \in Workers : pc[w] # "idle"
    /\ main = "returned" => \A w \in Workers : pc[w] = "exited"

\* inFlight_ is the number of threads that have a directory.
CountInv == inFlight = Cardinality(BusyWorkers)

Typed == ScanType /\ ThreadType /\ PhaseInv /\ CountInv

LEMMA RootsType == Roots \subseteq Entries
BY RootsAssumption DEF Roots, CollapseRedundantRoots

LEMMA JobType ==
    /\ \A p \in Entries : [path |-> p, dev |-> Device[p]] \in Jobs
    /\ \A p \in Entries : \A j \in Jobs : [path |-> p, dev |-> j.dev] \in Jobs
    /\ \A j \in Jobs : j.path \in Entries /\ j.dev \in Nat
    /\ NoJob \notin Jobs
BY EntriesAssumption DEF Jobs, NoJob

LEMMA BusyFinite == IsFiniteSet(BusyWorkers) /\ Cardinality(BusyWorkers) \in Nat
BY WorkersAssumption, FS_Subset, FS_CardinalityType DEF BusyWorkers

LEMMA TypedIsTypeOK == Typed => TypeOK
BY BusyFinite DEF Typed, ScanType, ThreadType, CountInv, TypeOK, Busy

LEMMA TypedInit == Init => Typed
<1> SUFFICES ASSUME Init PROVE Typed
  OBVIOUS
<1>1. ScanType
  BY EntriesAssumption DEF Init, ScanType
<1>2. ThreadType
  BY JobType DEF Init, ThreadType, Busy
<1>3. PhaseInv
  BY DEF Init, PhaseInv
<1>4. CountInv
  <2>1. BusyWorkers = {}
    BY DEF Init, BusyWorkers, Busy
  <2> QED
    BY <2>1, FS_EmptySet DEF Init, CountInv
<1> QED
  BY <1>1, <1>2, <1>3, <1>4 DEF Typed

LEMMA ScanTypeStep == Typed /\ [Next]_vars => ScanType'
<1> SUFFICES ASSUME ScanType, [Next]_vars PROVE ScanType'
  BY DEF Typed
<1> USE DEF ScanType, queue, threads, notMain, notWorkers
<1>1. ASSUME NEW r \in Entries, Seed(r) PROVE ScanType'
  BY <1>1 DEF Seed
<1>2. CASE StartThreads \/ Join \/ Cancel \/ Returned \/ UNCHANGED vars
  BY <1>2 DEF StartThreads, Join, Cancel, Returned, vars
<1>3. ASSUME NEW w \in Workers, Pop(w) \/ PopNothing(w) \/ Open(w) \/ Read(w) \/ Done(w)
      PROVE  ScanType'
  BY <1>3 DEF Pop, PopNothing, Open, Read, Done
<1>4. ASSUME NEW w \in Workers, NEW p \in Entries, Handle(w, p) PROVE ScanType'
  BY <1>4 DEF Handle
<1>5. ASSUME NEW p \in Entries, Vanish(p) PROVE ScanType'
  BY <1>5 DEF Vanish
<1> QED
  BY <1>1, <1>2, <1>3, <1>4, <1>5 DEF Next, Main, Worker

LEMMA ThreadTypeStep == Typed /\ [Next]_vars => ThreadType'
<1> SUFFICES ASSUME Typed, [Next]_vars PROVE ThreadType'
  OBVIOUS
<1> USE DEF ThreadType, queue, threads, notMain, notWorkers, Goto
<1>0. ThreadType /\ ScanType /\ PhaseInv
  BY DEF Typed
<1>1. ASSUME NEW r \in Entries, Seed(r) PROVE ThreadType'
  BY <1>0, <1>1, JobType DEF Seed
<1>2. CASE StartThreads
  BY <1>0, <1>2 DEF StartThreads, PhaseInv, Busy
<1>3. CASE Join \/ Cancel \/ Returned \/ UNCHANGED vars
  BY <1>0, <1>3 DEF Join, Cancel, Returned, vars
<1>4. ASSUME NEW w \in Workers, Pop(w) PROVE ThreadType'
  <2>1. Head(jobs) \in Jobs /\ Tail(jobs) \in Seq(Jobs)
    BY <1>0, <1>4 DEF Pop
  <2> QED
    BY <1>0, <1>4, <2>1 DEF Pop, Busy
<1>5. ASSUME NEW w \in Workers, PopNothing(w) \/ Done(w) PROVE ThreadType'
  BY <1>0, <1>5, JobType DEF PopNothing, Done, Busy
<1>6. ASSUME NEW w \in Workers, Open(w) PROVE ThreadType'
  <2>1. Children(job[w].path) \subseteq Entries
    BY <1>0 DEF Children, ScanType
  <2> QED
    BY <1>0, <1>6, <2>1 DEF Open, Busy
<1>7. ASSUME NEW w \in Workers, Read(w) PROVE ThreadType'
  BY <1>0, <1>7 DEF Read, Busy
<1>8. ASSUME NEW w \in Workers, NEW p \in Entries, Handle(w, p) PROVE ThreadType'
  <2>1. job[w] \in Jobs
    BY <1>0, <1>8 DEF Handle, Busy
  <2>2. [path |-> p, dev |-> IF p \in Roots THEN Device[p] ELSE job[w].dev] \in Jobs
    BY <2>1, JobType
  <2>3. jobs' \in Seq(Jobs)
    BY <1>0, <1>8, <2>2 DEF Handle
  <2> QED
    BY <1>0, <1>8, <2>3 DEF Handle
<1>9. ASSUME NEW p \in Entries, Vanish(p) PROVE ThreadType'
  BY <1>0, <1>9 DEF Vanish
<1> QED
  BY <1>1, <1>2, <1>3, <1>4, <1>5, <1>6, <1>7, <1>8, <1>9 DEF Next, Main, Worker

LEMMA PhaseStep == Typed /\ [Next]_vars => PhaseInv'
<1> SUFFICES ASSUME Typed, [Next]_vars PROVE PhaseInv'
  OBVIOUS
<1> USE DEF PhaseInv, queue, threads, notMain, notWorkers, Goto
<1>0. PhaseInv /\ ThreadType /\ ScanType
  BY DEF Typed
<1>1. ASSUME NEW r \in Entries, Seed(r) PROVE PhaseInv'
  BY <1>0, <1>1 DEF Seed
<1>2. CASE StartThreads \/ Join \/ Cancel \/ Returned \/ UNCHANGED vars
  BY <1>0, <1>2 DEF StartThreads, Join, Cancel, Returned, vars
<1>3. ASSUME NEW w \in Workers, Pop(w) \/ PopNothing(w) \/ Open(w) \/ Read(w) \/ Done(w)
      PROVE  PhaseInv'
  BY <1>0, <1>3 DEF Pop, PopNothing, Open, Read, Done, ThreadType
<1>4. ASSUME NEW w \in Workers, NEW p \in Entries, Handle(w, p) PROVE PhaseInv'
  BY <1>0, <1>4 DEF Handle
<1>5. ASSUME NEW p \in Entries, Vanish(p) PROVE PhaseInv'
  BY <1>0, <1>5 DEF Vanish
<1> QED
  BY <1>1, <1>2, <1>3, <1>4, <1>5 DEF Next, Main, Worker

LEMMA CountStep == Typed /\ [Next]_vars => CountInv'
<1> SUFFICES ASSUME Typed, [Next]_vars PROVE CountInv'
  OBVIOUS
<1> USE DEF queue, threads, notMain, notWorkers, Goto
<1>0. CountInv /\ ThreadType /\ PhaseInv /\ IsFiniteSet(BusyWorkers) /\ Cardinality(BusyWorkers) \in Nat
  BY BusyFinite DEF Typed
<1>1. CASE inFlight' = inFlight /\ BusyWorkers' = BusyWorkers
  BY <1>0, <1>1 DEF CountInv
<1>2. ASSUME NEW r \in Entries, Seed(r) PROVE CountInv'
  BY <1>1, <1>2 DEF Seed, BusyWorkers
<1>3. CASE StartThreads
  BY <1>0, <1>1, <1>3 DEF StartThreads, BusyWorkers, PhaseInv, Busy
<1>4. CASE Join \/ Cancel \/ Returned \/ UNCHANGED vars
  BY <1>1, <1>4 DEF Join, Cancel, Returned, vars, BusyWorkers
<1>5. ASSUME NEW w \in Workers, Pop(w) PROVE CountInv'
  <2>1. BusyWorkers' = BusyWorkers \cup {w} /\ w \notin BusyWorkers
    BY <1>0, <1>5 DEF Pop, BusyWorkers, Busy, ThreadType
  <2>2. Cardinality(BusyWorkers') = Cardinality(BusyWorkers) + 1
    BY <1>0, <2>1, FS_AddElement
  <2> QED
    BY <1>0, <1>5, <2>2 DEF Pop, CountInv
<1>6. ASSUME NEW w \in Workers, Done(w) PROVE CountInv'
  <2>1. BusyWorkers' = BusyWorkers \ {w} /\ w \in BusyWorkers
    BY <1>0, <1>6 DEF Done, BusyWorkers, Busy, ThreadType
  <2>2. Cardinality(BusyWorkers') = Cardinality(BusyWorkers) - 1
    BY <1>0, <2>1, FS_RemoveElement
  <2> QED
    BY <1>0, <1>6, <2>2 DEF Done, CountInv
<1>7. ASSUME NEW w \in Workers, PopNothing(w) \/ Open(w) \/ Read(w) PROVE CountInv'
  BY <1>0, <1>1, <1>7 DEF PopNothing, Open, Read, BusyWorkers, Busy, ThreadType
<1>8. ASSUME NEW w \in Workers, NEW p \in Entries, Handle(w, p) PROVE CountInv'
  BY <1>1, <1>8 DEF Handle, BusyWorkers
<1>9. ASSUME NEW p \in Entries, Vanish(p) PROVE CountInv'
  BY <1>1, <1>9 DEF Vanish, BusyWorkers
<1> QED
  BY <1>2, <1>3, <1>4, <1>5, <1>6, <1>7, <1>8, <1>9 DEF Next, Main, Worker

LEMMA TypedStep == Typed /\ [Next]_vars => Typed'
BY ScanTypeStep, ThreadTypeStep, PhaseStep, CountStep DEF Typed

LEMMA TypedAlways == Spec => []Typed
BY TypedInit, TypedStep, PTL DEF Spec

\* Every variable of the scan keeps its type; inFlight_ is never below zero.
THEOREM TypeCorrect == Spec => []TypeOK
BY TypedAlways, TypedIsTypeOK, PTL

LEMMA LeavingStep == Typed /\ NobodyLeavesEarly /\ [Next]_vars => NobodyLeavesEarly'
<1> SUFFICES ASSUME Typed, NobodyLeavesEarly, [Next]_vars PROVE NobodyLeavesEarly'
  OBVIOUS
<1> USE DEF NobodyLeavesEarly, queue, threads, notMain, notWorkers, Goto
<1>0. ThreadType /\ PhaseInv /\ CountInv /\ BusyWorkers \subseteq Workers
  BY DEF Typed, BusyWorkers
<1>1. ASSUME NEW r \in Entries, Seed(r) PROVE NobodyLeavesEarly'
  BY <1>0, <1>1 DEF Seed, PhaseInv
<1>2. CASE StartThreads \/ Join \/ Cancel \/ Returned \/ UNCHANGED vars
  BY <1>0, <1>2 DEF StartThreads, Join, Cancel, Returned, vars
<1>3. ASSUME NEW w \in Workers, Pop(w) \/ Open(w) \/ Read(w) \/ Done(w)
      PROVE  NobodyLeavesEarly'
  BY <1>0, <1>3 DEF Pop, Open, Read, Done, ThreadType
<1>4. ASSUME NEW w \in Workers, PopNothing(w) PROVE NobodyLeavesEarly'
  <2>1. CASE cancelToken
    BY <1>4, <2>1 DEF PopNothing
  <2>2. CASE jobs = <<>> /\ inFlight = 0
    <3>1. BusyWorkers = {}
      BY <1>0, <2>2, BusyFinite, FS_EmptySet DEF CountInv
    <3>2. main # "seed"
      BY <1>0, <1>4 DEF PhaseInv, PopNothing
    <3>3. \A v \in Workers : pc[v] \in {"pop", "exited"}
      BY <1>0, <3>1, <3>2 DEF BusyWorkers, ThreadType, PhaseInv
    <3> QED
      BY <1>0, <1>4, <2>2, <3>3 DEF PopNothing, ThreadType
  <2> QED
    BY <1>4, <2>1, <2>2 DEF PopNothing
<1>5. ASSUME NEW w \in Workers, NEW p \in Entries, Handle(w, p) PROVE NobodyLeavesEarly'
  BY <1>0, <1>5 DEF Handle
<1>6. ASSUME NEW p \in Entries, Vanish(p) PROVE NobodyLeavesEarly'
  BY <1>0, <1>6 DEF Vanish
<1> QED
  BY <1>1, <1>2, <1>3, <1>4, <1>5, <1>6 DEF Next, Main, Worker

\* No thread of the pool ends while another one has, or may still queue, a
\* directory: what makes one count and one lock enough to end the scan.
THEOREM ThreadsLeaveTogether == Spec => []NobodyLeavesEarly
<1>1. Init => NobodyLeavesEarly
  BY DEF Init, NobodyLeavesEarly
<1> QED
  BY <1>1, LeavingStep, TypedAlways, PTL DEF Spec

-----------------------------------------------------------------------------
(* Nothing is read or reported twice.                                      *)

\* A directory that has been queued. A root is queued when it leaves seeds,
\* any other directory when it is reported.
Started(d) == IF d \in Roots THEN d \notin seeds ELSE emitted[d] # 0

Waiting == {jobs[i].path : i \in 1..Len(jobs)}

\* A directory is in the queue once, or held by one thread.
PlacesInv ==
    /\ \A i, j \in 1..Len(jobs) : i # j => jobs[i].path # jobs[j].path
    /\ \A v \in BusyWorkers : job[v].path \notin Waiting
    /\ \A v, w \in BusyWorkers : v # w => job[v].path # job[w].path
    /\ \A d \in Waiting : Started(d)
    /\ \A v \in BusyWorkers : Started(job[v].path)

\* What is queued lies below a root, with directories of its device between.
InRegion(j) ==
    \E r \in Roots :
        /\ IsPathUnderOrEqual(j.path, r) /\ j.dev = Device[r]
        /\ \A q \in Entries :
               IsPathUnderOrEqual(j.path, q) /\ IsPathUnderOrEqual(q, r) =>
                   Kind[q] = "dir" /\ Device[q] = Device[r]

RegionInv ==
    /\ \A i \in 1..Len(jobs) : InRegion(jobs[i])
    /\ \A v \in BusyWorkers : InRegion(job[v])

\* What a thread has read, and not handled, has not been reported.
ReadInv ==
    \A w \in Workers :
        /\ pc[w] # "read" => unread[w] = {} /\ batch[w] = {}
        /\ unread[w] \cap batch[w] = {}
        /\ \A p \in unread[w] \cup batch[w] : ChildOf(p, job[w].path) /\ emitted[p] = 0

\* Nor has anything in a directory that no thread has opened.
Unopened(d) ==
    ~Started(d) \/ d \in Waiting \/ \E w \in Workers : pc[w] = "open" /\ job[w].path = d

FreshInv ==
    /\ \A p \in Entries \ Roots, d \in Entries : ChildOf(p, d) /\ Unopened(d) => emitted[p] = 0
    /\ \A r \in seeds : emitted[r] = 0
    /\ \A p \in Entries : emitted[p] <= 1

Once == PlacesInv /\ RegionInv /\ ReadInv /\ FreshInv

LEMMA OnceInit == Init => Once
BY RootsType DEF Init, Once, PlacesInv, RegionInv, ReadInv, FreshInv, BusyWorkers, Busy, Waiting, Unopened

\* No root lies in a directory that is scanned: redundant roots were dropped.
LEMMA NoRootBelow ==
    ASSUME NEW p \in Entries, NEW j \in Jobs, InRegion(j), ChildOf(p, j.path)
    PROVE  p \notin Roots
<1> SUFFICES ASSUME p \in Roots PROVE FALSE
  OBVIOUS
<1>1. PICK r \in Roots : IsPathUnderOrEqual(j.path, r)
  BY DEF InRegion
<1>2. j.path \in Entries /\ r \in Entries
  BY JobType, RootsType
<1>3. IsPathUnderOrEqual(p, r)
  BY <1>1, <1>2, UnderTransitive DEF ChildOf
<1>4. p = r
  BY <1>3 DEF Roots, CollapseRedundantRoots
<1>5. Len(p) <= Len(j.path) /\ Len(p) = Len(j.path) + 1
  BY <1>1, <1>2, <1>4, UnderShorter DEF ChildOf
<1> QED
  BY <1>2, <1>5, PathType

\* What Handle does to an entry of a thread's buffer.
LEMMA HandleFacts ==
    ASSUME Typed, Once, NEW w \in Workers, NEW p \in Entries, Handle(w, p)
    PROVE  /\ w \in BusyWorkers /\ pc[w] = "read" /\ p \in batch[w]
           /\ job[w] \in Jobs /\ job[w].path \in Entries /\ InRegion(job[w])
           /\ ChildOf(p, job[w].path)
           /\ p \notin Roots /\ emitted[p] = 0 /\ ~Started(p)
           /\ emitted' \in {emitted, [emitted EXCEPT ![p] = 1]}
           /\ jobs' # jobs =>
                 /\ jobs' = Append(jobs, [path |-> p, dev |-> job[w].dev])
                 /\ emitted'[p] = 1
                 /\ Kind[p] = "dir" /\ Device[p] = job[w].dev
           /\ UNCHANGED <<seeds, pc, job, unread>>
           /\ batch' = [batch EXCEPT ![w] = @ \ {p}]
<1> USE DEF Typed, Once
<1>1. pc[w] = "read" /\ p \in batch[w] /\ w \in BusyWorkers
  BY DEF Handle, BusyWorkers, Busy
<1>2. job[w] \in Jobs /\ job[w].path \in Entries /\ InRegion(job[w])
  BY <1>1, JobType DEF ThreadType, RegionInv, Busy
<1>3. ChildOf(p, job[w].path) /\ emitted[p] = 0
  BY <1>1 DEF ReadInv
<1>4. p \notin Roots
  BY <1>2, <1>3, NoRootBelow
<1>5. ~Started(p)
  BY <1>3, <1>4 DEF Started
<1>6. /\ emitted' \in {emitted, [emitted EXCEPT ![p] = 1]}
      /\ jobs' # jobs =>
            /\ jobs' = Append(jobs, [path |-> p, dev |-> job[w].dev])
            /\ emitted'[p] = 1
            /\ Kind[p] = "dir" /\ Device[p] = job[w].dev
  BY <1>3, <1>4 DEF Handle, Descends, ScanType
<1> QED
  BY <1>1, <1>2, <1>3, <1>4, <1>5, <1>6 DEF Handle, notWorkers


LEMMA WaitingType == ASSUME ThreadType PROVE Waiting \subseteq Entries
BY JobType DEF Waiting, ThreadType

LEMMA Push ==
    ASSUME ThreadType, NEW j \in Jobs, jobs' = Append(jobs, j)
    PROVE  /\ Len(jobs') = Len(jobs) + 1 /\ Len(jobs) \in Nat
           /\ \A i \in 1..Len(jobs') : jobs'[i] = IF i = Len(jobs) + 1 THEN j ELSE jobs[i]
           /\ Waiting' = Waiting \cup {j.path}
<1>1. /\ Len(jobs') = Len(jobs) + 1 /\ Len(jobs) \in Nat
      /\ \A i \in 1..Len(jobs') : jobs'[i] = IF i = Len(jobs) + 1 THEN j ELSE jobs[i]
  BY DEF ThreadType
<1> QED
  BY <1>1 DEF Waiting

LEMMA Take ==
    ASSUME ThreadType, NEW w \in Workers, Pop(w)
    PROVE  /\ Len(jobs') = Len(jobs) - 1 /\ Len(jobs) \in Nat \ {0}
           /\ \A i \in 1..Len(jobs') : jobs'[i] = jobs[i + 1]
           /\ job'[w] = jobs[1] /\ jobs[1] \in Jobs
           /\ \A v \in Workers \ {w} : job'[v] = job[v]
           /\ w \notin BusyWorkers /\ BusyWorkers' = BusyWorkers \cup {w}
           /\ Waiting = Waiting' \cup {jobs[1].path}
           /\ UNCHANGED <<seeds, emitted>>
<1>1. /\ Len(jobs') = Len(jobs) - 1 /\ Len(jobs) \in Nat \ {0}
      /\ \A i \in 1..Len(jobs') : jobs'[i] = jobs[i + 1]
      /\ job'[w] = jobs[1] /\ jobs[1] \in Jobs
  BY DEF ThreadType, Pop
<1>2. /\ w \notin BusyWorkers /\ BusyWorkers' = BusyWorkers \cup {w}
      /\ \A v \in Workers \ {w} : job'[v] = job[v]
      /\ UNCHANGED <<seeds, emitted>>
  BY DEF Pop, BusyWorkers, Busy, ThreadType, Goto, notWorkers
<1>3. Waiting = Waiting' \cup {jobs[1].path}
  <2>1. ASSUME NEW i \in 1..Len(jobs) PROVE jobs[i].path \in Waiting' \cup {jobs[1].path}
    <3>1. CASE i = 1
      BY <3>1
    <3>2. CASE i # 1
      <4>1. i - 1 \in 1..Len(jobs') /\ jobs'[i - 1] = jobs[i]
        BY <1>1, <3>2
      <4> QED
        BY <4>1 DEF Waiting
    <3> QED
      BY <3>1, <3>2
  <2>2. ASSUME NEW i \in 1..Len(jobs') PROVE jobs'[i].path \in Waiting
    BY <1>1 DEF Waiting
  <2>3. jobs[1].path \in Waiting
    BY <1>1 DEF Waiting
  <2> QED
    BY <2>1, <2>2, <2>3 DEF Waiting
<1> QED
  BY <1>1, <1>2, <1>3

\* A directory that is queued for the first time has no other place.
LEMMA PushPlaces ==
    ASSUME ThreadType, PlacesInv, NEW j \in Jobs, jobs' = Append(jobs, j), UNCHANGED <<pc, job>>,
           ~Started(j.path), Started(j.path)', \A d \in Entries : Started(d) => Started(d)'
    PROVE  PlacesInv'
<1>1. Waiting' = Waiting \cup {j.path} /\ BusyWorkers' = BusyWorkers /\ Len(jobs) \in Nat
  BY Push DEF BusyWorkers
<1>2. j.path \notin Waiting /\ \A v \in BusyWorkers : job[v].path # j.path
  BY DEF PlacesInv
<1>3. \A i \in 1..Len(jobs) : jobs[i].path # j.path
  BY <1>2 DEF Waiting
<1>4. \A i, k \in 1..Len(jobs') : i # k => jobs'[i].path # jobs'[k].path
  BY <1>1, <1>3, Push DEF PlacesInv
<1>5. /\ \A d \in Waiting' : Started(d)'
      /\ \A v \in BusyWorkers' : Started(job[v].path)'
  BY <1>1, WaitingType, JobType DEF PlacesInv, ThreadType, BusyWorkers
<1> QED
  BY <1>1, <1>2, <1>4, <1>5 DEF PlacesInv

LEMMA PlacesStep == Typed /\ Once /\ [Next]_vars => PlacesInv'
<1> SUFFICES ASSUME Typed, Once, [Next]_vars PROVE PlacesInv'
  OBVIOUS
<1> USE DEF queue, threads, notMain, notWorkers, Goto
<1>0. PlacesInv /\ ThreadType /\ ScanType
  BY DEF Typed, Once
<1>1. ASSUME UNCHANGED <<jobs, job, seeds, emitted>>, BusyWorkers' \subseteq BusyWorkers
      PROVE  PlacesInv'
  BY <1>0, <1>1 DEF PlacesInv, Waiting, Started
<1>2. ASSUME UNCHANGED <<jobs, job, pc>>, \A d \in Entries : Started(d) => Started(d)'
      PROVE  PlacesInv'
  <2>1. Waiting' = Waiting /\ BusyWorkers' = BusyWorkers
    BY <1>2 DEF Waiting, BusyWorkers
  <2> QED
    BY <1>0, <1>2, <2>1, WaitingType, JobType DEF PlacesInv, ThreadType, BusyWorkers
<1>3. ASSUME NEW r \in Entries, Seed(r) PROVE PlacesInv'
  <2>1. r \in Roots /\ ~Started(r) /\ Started(r)' /\ \A d \in Entries : Started(d) => Started(d)'
    BY <1>0, <1>3 DEF Seed, Started, ScanType
  <2>2. CASE jobs' = jobs
    BY <1>2, <1>3, <2>1, <2>2 DEF Seed
  <2>3. CASE jobs' # jobs
    BY <1>0, <1>3, <2>1, <2>3, PushPlaces, JobType DEF Seed
  <2> QED
    BY <2>2, <2>3
<1>4. CASE StartThreads
  BY <1>1, <1>4 DEF StartThreads, BusyWorkers, Busy
<1>5. CASE Join \/ Cancel \/ Returned \/ UNCHANGED vars
  BY <1>1, <1>5 DEF Join, Cancel, Returned, vars, BusyWorkers
<1>6. ASSUME NEW w \in Workers, Pop(w) PROVE PlacesInv'
  <2>1. jobs[1].path \in Waiting /\ \A i \in 1..Len(jobs') : jobs'[i].path # jobs[1].path
    <3>1. \A i \in 1..Len(jobs') : jobs'[i].path = jobs[i + 1].path /\ i + 1 \in 1..Len(jobs) /\ i + 1 # 1
      BY <1>0, <1>6, Take
    <3> QED
      BY <1>0, <1>6, <3>1, Take DEF PlacesInv
  <2>2. jobs[1].path \notin Waiting'
    BY <2>1 DEF Waiting
  <2>3. \A i, k \in 1..Len(jobs') : i # k => jobs'[i].path # jobs'[k].path
    <3> SUFFICES ASSUME NEW i \in 1..Len(jobs'), NEW k \in 1..Len(jobs'), i # k
                 PROVE  jobs'[i].path # jobs'[k].path
      OBVIOUS
    <3>1. /\ jobs'[i] = jobs[i + 1] /\ i + 1 \in 1..Len(jobs)
          /\ jobs'[k] = jobs[k + 1] /\ k + 1 \in 1..Len(jobs)
          /\ i + 1 # k + 1
      BY <1>0, <1>6, Take
    <3> QED
      BY <1>0, <3>1 DEF PlacesInv
  <2>4. /\ \A v \in BusyWorkers' : job'[v].path \notin Waiting'
        /\ \A v, u \in BusyWorkers' : v # u => job'[v].path # job'[u].path
    BY <1>0, <1>6, <2>1, <2>2, Take DEF PlacesInv, BusyWorkers
  <2>5. /\ \A d \in Waiting' : Started(d)'
        /\ \A v \in BusyWorkers' : Started(job[v].path)'
    BY <1>0, <1>6, <2>1, Take DEF PlacesInv, Started, BusyWorkers
  <2> QED
    BY <2>3, <2>4, <2>5 DEF PlacesInv
<1>7. ASSUME NEW w \in Workers, PopNothing(w) \/ Open(w) \/ Read(w) PROVE PlacesInv'
  <2>1. BusyWorkers' \subseteq BusyWorkers
    BY <1>0, <1>7 DEF PopNothing, Open, Read, BusyWorkers, Busy, ThreadType
  <2> QED
    BY <1>1, <1>7, <2>1 DEF PopNothing, Open, Read
<1>8. ASSUME NEW w \in Workers, Done(w) PROVE PlacesInv'
  <2>1. BusyWorkers' = BusyWorkers \ {w} /\ \A v \in BusyWorkers' : job'[v] = job[v]
    BY <1>0, <1>8 DEF Done, BusyWorkers, Busy, ThreadType
  <2>2. Waiting' = Waiting
    BY <1>8 DEF Done, Waiting
  <2> QED
    BY <1>0, <1>8, <2>1, <2>2 DEF PlacesInv, Started, Done
<1>9. ASSUME NEW w \in Workers, NEW p \in Entries, Handle(w, p) PROVE PlacesInv'
  <2>1. ~Started(p) /\ UNCHANGED <<seeds, pc, job>>
    BY <1>9, HandleFacts
  <2>4. emitted' \in {emitted, [emitted EXCEPT ![p] = 1]} /\ p \notin Roots
    BY <1>9, HandleFacts
  <2>5. \A d \in Entries : Started(d) => Started(d)'
    BY <1>0, <2>1, <2>4 DEF Started, ScanType
  <2>6. emitted'[p] = 1 => Started(p)'
    BY <2>4 DEF Started
  <2>2. CASE jobs' = jobs
    BY <1>2, <2>1, <2>2, <2>5
  <2>3. CASE jobs' # jobs
    <3> DEFINE j == [path |-> p, dev |-> job[w].dev]
    <3>1. jobs' = Append(jobs, j) /\ j \in Jobs /\ j.path = p /\ Started(p)'
      BY <1>9, <2>3, <2>6, HandleFacts, JobType
    <3> HIDE DEF j
    <3> QED
      BY <1>0, <2>1, <2>5, <3>1, PushPlaces
  <2> QED
    BY <2>2, <2>3
<1>10. ASSUME NEW p \in Entries, Vanish(p) PROVE PlacesInv'
  BY <1>1, <1>10 DEF Vanish, BusyWorkers
<1> QED
  BY <1>3, <1>4, <1>5, <1>6, <1>7, <1>8, <1>9, <1>10 DEF Next, Main, Worker


\* A root is in its own region; so is a directory on the same device as the
\* directory it is in.
LEMMA RegionOfRoot ==
    ASSUME NEW r \in Roots, Kind[r] = "dir"
    PROVE  InRegion([path |-> r, dev |-> Device[r]])
<1>1. r \in Entries
  BY RootsType
<1>2. ASSUME NEW q \in Entries, IsPathUnderOrEqual(r, q), IsPathUnderOrEqual(q, r)
      PROVE  q = r
  BY <1>1, <1>2, UnderShorter, PathType
<1>3. IsPathUnderOrEqual(r, r)
  BY <1>1, UnderReflexive
<1> QED
  BY <1>2, <1>3 DEF InRegion

LEMMA RegionOfChild ==
    ASSUME NEW p \in Entries, NEW j \in Jobs, InRegion(j), ChildOf(p, j.path),
           Kind[p] = "dir", Device[p] = j.dev
    PROVE  InRegion([path |-> p, dev |-> j.dev])
<1>1. PICK r \in Roots :
          /\ IsPathUnderOrEqual(j.path, r) /\ j.dev = Device[r]
          /\ \A q \in Entries :
                 IsPathUnderOrEqual(j.path, q) /\ IsPathUnderOrEqual(q, r) =>
                     Kind[q] = "dir" /\ Device[q] = Device[r]
  BY DEF InRegion
<1>2. j.path \in Entries /\ r \in Entries
  BY JobType, RootsType
<1>3. IsPathUnderOrEqual(p, r)
  BY <1>1, <1>2, UnderTransitive DEF ChildOf
<1>4. ASSUME NEW q \in Entries, IsPathUnderOrEqual(p, q), IsPathUnderOrEqual(q, r)
      PROVE  Kind[q] = "dir" /\ Device[q] = Device[r]
  <2>1. CASE q = p
    BY <1>1, <2>1
  <2>2. CASE q # p
    <3>1. Len(q) <= Len(j.path)
      BY <1>2, <1>4, <2>2, UnderShorter, PathType DEF ChildOf
    <3>2. IsPathUnderOrEqual(j.path, q)
      BY <1>2, <1>4, <3>1, UnderChain DEF ChildOf
    <3> QED
      BY <1>1, <1>4, <3>2
  <2> QED
    BY <2>1, <2>2
<1> QED
  BY <1>1, <1>3, <1>4 DEF InRegion

LEMMA RegionStep == Typed /\ Once /\ [Next]_vars => RegionInv'
<1> SUFFICES ASSUME Typed, Once, [Next]_vars PROVE RegionInv'
  OBVIOUS
<1> USE DEF queue, threads, notMain, notWorkers, Goto
<1>0. RegionInv /\ ThreadType /\ ScanType /\ \A j : InRegion(j)' <=> InRegion(j)
  BY DEF Typed, Once, InRegion
<1>1. ASSUME jobs' = jobs, \A v \in BusyWorkers' : v \in BusyWorkers /\ job'[v] = job[v]
      PROVE  RegionInv'
  BY <1>0, <1>1 DEF RegionInv, InRegion
<1>2. ASSUME NEW j \in Jobs, InRegion(j), jobs' = Append(jobs, j), UNCHANGED <<pc, job>>
      PROVE  RegionInv'
  <2>1. BusyWorkers' = BusyWorkers
    BY <1>2 DEF BusyWorkers
  <2>2. \A i \in 1..Len(jobs') : InRegion(jobs'[i])
    BY <1>0, <1>2, Push DEF RegionInv
  <2> QED
    BY <1>0, <1>2, <2>1, <2>2 DEF RegionInv, InRegion
<1>3. ASSUME NEW r \in Entries, Seed(r) PROVE RegionInv'
  <2>1. CASE jobs' = jobs
    BY <1>1, <1>3, <2>1 DEF Seed, BusyWorkers
  <2>2. CASE jobs' # jobs
    <3> DEFINE j == [path |-> r, dev |-> Device[r]]
    <3>1. jobs' = Append(jobs, j) /\ r \in Roots /\ Kind[r] = "dir" /\ UNCHANGED <<pc, job>>
      BY <1>0, <1>3, <2>2 DEF Seed, ScanType
    <3>2. j \in Jobs /\ InRegion(j)
      BY <3>1, JobType, RegionOfRoot
    <3> HIDE DEF j
    <3> QED
      BY <1>2, <3>1, <3>2
  <2> QED
    BY <2>1, <2>2
<1>4. CASE StartThreads
  BY <1>1, <1>4 DEF StartThreads, BusyWorkers, Busy
<1>5. CASE Join \/ Cancel \/ Returned \/ UNCHANGED vars
  BY <1>1, <1>5 DEF Join, Cancel, Returned, vars, BusyWorkers
<1>6. ASSUME NEW w \in Workers, Pop(w) PROVE RegionInv'
  <2>1. InRegion(jobs[1]) /\ \A i \in 1..Len(jobs') : InRegion(jobs'[i])
    <3>1. \A i \in 1..Len(jobs') : jobs'[i] = jobs[i + 1] /\ i + 1 \in 1..Len(jobs)
      BY <1>0, <1>6, Take
    <3> QED
      BY <1>0, <1>6, <3>1, Take DEF RegionInv
  <2>2. \A v \in BusyWorkers' : InRegion(job'[v])
    BY <1>0, <1>6, <2>1, Take DEF RegionInv, BusyWorkers
  <2> QED
    BY <2>1, <2>2 DEF RegionInv, InRegion
<1>7. ASSUME NEW w \in Workers, PopNothing(w) \/ Open(w) \/ Read(w) PROVE RegionInv'
  BY <1>0, <1>1, <1>7 DEF PopNothing, Open, Read, BusyWorkers, Busy, ThreadType
<1>8. ASSUME NEW w \in Workers, Done(w) PROVE RegionInv'
  BY <1>0, <1>1, <1>8 DEF Done, BusyWorkers, Busy, ThreadType
<1>9. ASSUME NEW w \in Workers, NEW p \in Entries, Handle(w, p) PROVE RegionInv'
  <2>1. CASE jobs' = jobs
    BY <1>1, <1>9, <2>1, HandleFacts DEF BusyWorkers
  <2>2. CASE jobs' # jobs
    <3> DEFINE j == [path |-> p, dev |-> job[w].dev]
    <3>1. jobs' = Append(jobs, j) /\ j \in Jobs /\ UNCHANGED <<pc, job>>
      BY <1>9, <2>2, HandleFacts, JobType
    <3>2. InRegion(j)
      BY <1>9, <2>2, HandleFacts, RegionOfChild
    <3> HIDE DEF j
    <3> QED
      BY <1>2, <3>1, <3>2
  <2> QED
    BY <2>1, <2>2
<1>10. ASSUME NEW p \in Entries, Vanish(p) PROVE RegionInv'
  BY <1>1, <1>10 DEF Vanish, BusyWorkers
<1> QED
  BY <1>3, <1>4, <1>5, <1>6, <1>7, <1>8, <1>9, <1>10 DEF Next, Main, Worker

LEMMA ReadStep == Typed /\ Once /\ [Next]_vars => ReadInv'
<1> SUFFICES ASSUME Typed, Once, [Next]_vars PROVE ReadInv'
  OBVIOUS
<1> USE DEF queue, threads, notMain, notWorkers, Goto
<1>0. ReadInv /\ ThreadType /\ ScanType /\ PhaseInv
  BY DEF Typed, Once
<1>1. CASE UNCHANGED <<unread, batch, pc, job, emitted>>
  BY <1>0, <1>1 DEF ReadInv
<1>2. ASSUME NEW r \in Entries, Seed(r) PROVE ReadInv'
  <2>1. \A w \in Workers : unread'[w] = {} /\ batch'[w] = {}
    BY <1>0, <1>2 DEF Seed, ReadInv, PhaseInv
  <2> QED
    BY <2>1 DEF ReadInv
<1>3. CASE StartThreads
  BY <1>0, <1>3 DEF StartThreads, ReadInv, PhaseInv
<1>4. CASE Join \/ Cancel \/ Returned \/ UNCHANGED vars
  BY <1>1, <1>4 DEF Join, Cancel, Returned, vars
<1>5. ASSUME NEW w \in Workers, Pop(w) \/ PopNothing(w) \/ Done(w) PROVE ReadInv'
  BY <1>0, <1>5 DEF Pop, PopNothing, Done, ReadInv, ThreadType
<1>6. ASSUME NEW w \in Workers, Open(w) PROVE ReadInv'
  <2> DEFINE d == job[w].path
  <2>1. d \in Entries /\ InRegion(job[w]) /\ job[w] \in Jobs
    BY <1>0, <1>6, JobType DEF Open, ThreadType, Busy, Once, RegionInv, BusyWorkers
  <2>2. ASSUME NEW p \in Children(d) PROVE ChildOf(p, d) /\ emitted[p] = 0
    <3>1. p \in Entries /\ ChildOf(p, d)
      BY <1>0 DEF Children, ScanType, ChildOf
    <3>2. p \notin Roots
      BY <2>1, <3>1, NoRootBelow
    <3> QED
      BY <1>6, <2>1, <3>1, <3>2 DEF Once, FreshInv, Unopened, Open
  <2>3. unread[w] = {} /\ batch[w] = {}
    BY <1>0, <1>6 DEF ReadInv, Open
  <2>4. unread'[w] \in {{}, Children(d)} /\ (unread'[w] # {} => pc'[w] = "read")
    BY <1>0, <1>6, <2>3 DEF Open, ThreadType
  <2> HIDE DEF d
  <2>5. \A p \in unread'[w] \cup batch'[w] : ChildOf(p, d) /\ emitted[p] = 0
    BY <1>6, <2>2, <2>3, <2>4 DEF Open
  <2> QED
    BY <1>0, <1>6, <2>3, <2>4, <2>5 DEF ReadInv, Open, ThreadType, d
<1>7. ASSUME NEW w \in Workers, Read(w) PROVE ReadInv'
  BY <1>0, <1>7 DEF ReadInv, Read, ThreadType
<1>8. ASSUME NEW w \in Workers, NEW p \in Entries, Handle(w, p) PROVE ReadInv'
  <2>1. /\ UNCHANGED <<pc, job, unread>> /\ batch' = [batch EXCEPT ![w] = @ \ {p}]
        /\ p \in batch[w] /\ ChildOf(p, job[w].path) /\ w \in BusyWorkers
        /\ emitted' \in {emitted, [emitted EXCEPT ![p] = 1]}
    <3>1. UNCHANGED <<pc, job, unread>> /\ batch' = [batch EXCEPT ![w] = @ \ {p}] /\ p \in batch[w]
      BY <1>8 DEF Handle
    <3>2. w \in BusyWorkers /\ ChildOf(p, job[w].path)
      BY <1>8, HandleFacts
    <3>3. emitted' \in {emitted, [emitted EXCEPT ![p] = 1]}
      BY <1>8, HandleFacts
    <3> QED
      BY <3>1, <3>2, <3>3
  <2>2. ASSUME NEW v \in Workers, NEW x \in unread'[v] \cup batch'[v]
        PROVE  x \in unread[v] \cup batch[v] /\ x # p /\ x \in Entries
    <3>1. x \in unread[v] \cup batch[v] /\ x \in Entries
      BY <1>0, <2>1, <2>2 DEF ThreadType
    <3>2. CASE v = w
      BY <1>0, <2>1, <2>2, <3>2 DEF ReadInv, ThreadType
    <3>3. CASE v # w
      <4>1. ChildOf(x, job[v].path) /\ v \in BusyWorkers
        BY <1>0, <3>1 DEF ReadInv, BusyWorkers, Busy
      <4>2. job[v].path # job[w].path /\ job[v].path \in Entries /\ job[w].path \in Entries
        BY <1>0, <2>1, <3>3, <4>1, JobType DEF Once, PlacesInv, ThreadType, BusyWorkers
      <4> QED
        BY <2>1, <3>1, <4>1, <4>2, OneParent
    <3> QED
      BY <3>1, <3>2, <3>3
  <2>3. \A v \in Workers : batch'[v] \subseteq batch[v]
    BY <1>0, <2>1 DEF ThreadType
  <2>4. \A v \in Workers : \A x \in unread'[v] \cup batch'[v] : emitted'[x] = emitted[x]
    BY <1>0, <2>1, <2>2 DEF ScanType
  <2>5. \A v \in Workers : \A x \in unread'[v] \cup batch'[v] :
            ChildOf(x, job'[v].path) /\ emitted'[x] = 0
    <3> SUFFICES ASSUME NEW v \in Workers, NEW x \in unread'[v] \cup batch'[v]
                 PROVE  ChildOf(x, job'[v].path) /\ emitted'[x] = 0
      OBVIOUS
    <3>1. x \in unread[v] \cup batch[v] /\ emitted'[x] = emitted[x] /\ job' = job
      BY <2>1, <2>2, <2>4
    <3>2. ChildOf(x, job[v].path) /\ emitted[x] = 0
      BY <1>0, <3>1 DEF ReadInv
    <3> QED
      BY <3>1, <3>2
  <2>6. \A v \in Workers : /\ pc'[v] # "read" => unread'[v] = {} /\ batch'[v] = {}
                           /\ unread'[v] \cap batch'[v] = {}
    BY <1>0, <2>1, <2>3 DEF ReadInv
  <2> QED
    BY <2>5, <2>6 DEF ReadInv
<1>9. ASSUME NEW p \in Entries, Vanish(p) PROVE ReadInv'
  BY <1>1, <1>9 DEF Vanish
<1> QED
  BY <1>2, <1>3, <1>4, <1>5, <1>6, <1>7, <1>8, <1>9 DEF Next, Main, Worker


\* Nothing but a root and what a thread has read is reported.
LEMMA FreshStep == Typed /\ Once /\ [Next]_vars => FreshInv'
<1> SUFFICES ASSUME Typed, Once, [Next]_vars PROVE FreshInv'
  OBVIOUS
<1> USE DEF queue, threads, notMain, notWorkers, Goto
<1>0. FreshInv /\ ThreadType /\ ScanType /\ PhaseInv
  BY DEF Typed, Once
<1>1. ASSUME UNCHANGED <<seeds, emitted>>, \A d \in Entries : Unopened(d)' => Unopened(d)
      PROVE  FreshInv'
  BY <1>0, <1>1 DEF FreshInv
<1>2. ASSUME NEW r \in Entries, Seed(r) PROVE FreshInv'
  <2>1. /\ r \in seeds /\ r \in Roots /\ ~Started(r) /\ emitted[r] = 0
        /\ seeds' = seeds \ {r} /\ UNCHANGED <<pc, job>>
        /\ emitted' \in {emitted, [emitted EXCEPT ![r] = 1]}
    <3>1. r \in seeds /\ r \in Roots /\ emitted[r] = 0
      BY <1>0, <1>2 DEF Seed, FreshInv, ScanType
    <3>2. emitted' \in {emitted, [emitted EXCEPT ![r] = emitted[r] + 1]}
      BY <1>2 DEF Seed
    <3>3. emitted[r] + 1 = 1
      BY <3>1
    <3> QED
      BY <1>2, <3>1, <3>2, <3>3 DEF Seed, Started
  <2>2. Waiting' \subseteq Waiting \cup {r}
    <3>1. CASE jobs' = jobs
      BY <3>1 DEF Waiting
    <3>2. CASE jobs' # jobs
      <4> DEFINE j == [path |-> r, dev |-> Device[r]]
      <4>1. jobs' = Append(jobs, j) /\ j \in Jobs /\ j.path = r
        BY <1>2, <3>2, JobType DEF Seed
      <4> HIDE DEF j
      <4> QED
        BY <1>0, <4>1, Push
    <3> QED
      BY <3>1, <3>2
  <2>3. \A p \in Entries : p # r => emitted'[p] = emitted[p]
    BY <1>0, <2>1 DEF ScanType
  <2>4. \A d \in Entries : Unopened(d)' => Unopened(d)
    <3>1. \A d \in Entries : Started(d) => Started(d)'
      BY <1>0, <2>1, <2>3 DEF Started
    <3> QED
      BY <2>1, <2>2, <3>1 DEF Unopened
  <2>5. \A p \in Entries : emitted'[p] <= 1
    BY <1>0, <2>1, <2>3 DEF FreshInv, ScanType
  <2> QED
    BY <1>0, <2>1, <2>3, <2>4, <2>5, RootsType DEF FreshInv, ScanType
<1>3. CASE StartThreads
  <2>1. \A d \in Entries : Unopened(d)' => Unopened(d)
    BY <1>3 DEF StartThreads, Unopened, Started, Waiting
  <2> QED
    BY <1>1, <1>3, <2>1 DEF StartThreads
<1>4. CASE Join \/ Cancel \/ Returned \/ UNCHANGED vars
  BY <1>1, <1>4 DEF Join, Cancel, Returned, vars, Unopened, Started, Waiting
<1>5. ASSUME NEW w \in Workers, Pop(w) PROVE FreshInv'
  <2>1. \A d \in Entries : Unopened(d)' => Unopened(d)
    <3>1. \A d \in Entries : Started(d)' = Started(d)
      BY <1>0, <1>5, Take DEF Started
    <3>2. \A d \in Entries : d \in Waiting' => d \in Waiting
      BY <1>0, <1>5, Take
    <3>3. ASSUME NEW d \in Entries, NEW v \in Workers, pc'[v] = "open", job'[v].path = d
          PROVE  d \in Waiting \/ (pc[v] = "open" /\ job[v].path = d)
      <4>1. CASE v = w
        BY <1>0, <1>5, <3>3, <4>1, Take
      <4>2. CASE v # w
        BY <1>0, <1>5, <3>3, <4>2 DEF Pop, ThreadType
      <4> QED
        BY <4>1, <4>2
    <3> QED
      BY <3>1, <3>2, <3>3 DEF Unopened
  <2> QED
    BY <1>0, <1>1, <1>5, <2>1, Take
<1>6. ASSUME NEW w \in Workers, PopNothing(w) \/ Open(w) \/ Read(w) \/ Done(w) PROVE FreshInv'
  <2>1. /\ UNCHANGED <<jobs, seeds, emitted>>
        /\ \A v \in Workers : pc'[v] = "open" => pc[v] = "open" /\ job'[v] = job[v]
    BY <1>0, <1>6 DEF PopNothing, Open, Read, Done, ThreadType
  <2>2. \A d \in Entries : Unopened(d)' => Unopened(d)
    BY <2>1 DEF Unopened, Started, Waiting
  <2> QED
    BY <1>1, <2>1, <2>2
<1>7. ASSUME NEW w \in Workers, NEW p \in Entries, Handle(w, p) PROVE FreshInv'
  <2>0. PICK d \in Entries : d = job[w].path
    BY <1>7, HandleFacts
  <2>1. /\ ChildOf(p, d) /\ ~Started(p) /\ p \notin Roots
        /\ UNCHANGED <<seeds, pc, job>> /\ w \in BusyWorkers /\ pc[w] = "read"
        /\ emitted' \in {emitted, [emitted EXCEPT ![p] = 1]}
    BY <1>7, <2>0, HandleFacts
  <2>2. Waiting' \subseteq Waiting \cup {p}
    <3>1. CASE jobs' = jobs
      BY <3>1 DEF Waiting
    <3>2. CASE jobs' # jobs
      <4> DEFINE j == [path |-> p, dev |-> job[w].dev]
      <4>1. jobs' = Append(jobs, j) /\ j \in Jobs /\ j.path = p
        BY <1>7, <3>2, HandleFacts, JobType
      <4> HIDE DEF j
      <4> QED
        BY <1>0, <4>1, Push
    <3> QED
      BY <3>1, <3>2
  <2>3. \A x \in Entries : x # p => emitted'[x] = emitted[x]
    BY <1>0, <2>1 DEF ScanType
  <2>4. \A c \in Entries : Unopened(c)' => Unopened(c)
    <3>1. \A c \in Entries : Started(c) => Started(c)'
      BY <1>0, <2>1, <2>3 DEF Started, ScanType
    <3> QED
      BY <2>1, <2>2, <3>1 DEF Unopened
  <2>5. ~Unopened(d)'
    <3>1. Started(d) /\ d \notin Waiting /\ \A v \in Workers : pc[v] = "open" => job[v].path # d
      BY <2>0, <2>1 DEF Once, PlacesInv, BusyWorkers, Busy
    <3>2. d # p
      BY <2>1, PathType DEF ChildOf
    <3> QED
      BY <2>1, <2>2, <2>3, <3>1, <3>2 DEF Unopened, Started
  <2>6. ASSUME NEW x \in Entries \ Roots, NEW c \in Entries, ChildOf(x, c), Unopened(c)'
        PROVE  emitted'[x] = 0
    <3>1. x # p
      BY <2>1, <2>5, <2>6, OneParent
    <3> QED
      BY <1>0, <2>3, <2>4, <2>6, <3>1 DEF FreshInv
  <2>7. \A x \in Entries : emitted'[x] <= 1
    BY <1>0, <2>1, <2>3 DEF FreshInv, ScanType
  <2>8. \A r \in seeds' : emitted'[r] = 0
    BY <1>0, <2>1, <2>3, RootsType DEF FreshInv, ScanType
  <2> QED
    BY <2>6, <2>7, <2>8 DEF FreshInv
<1>8. ASSUME NEW p \in Entries, Vanish(p) PROVE FreshInv'
  BY <1>1, <1>8 DEF Vanish, Unopened, Started, Waiting
<1> QED
  BY <1>2, <1>3, <1>4, <1>5, <1>6, <1>7, <1>8 DEF Next, Main, Worker

LEMMA OnceAlways == Spec => [](Typed /\ Once)
<1>1. Typed /\ Once /\ [Next]_vars => Once'
  BY PlacesStep, RegionStep, ReadStep, FreshStep DEF Once
<1> QED
  BY <1>1, OnceInit, TypedAlways, TypedStep, TypedInit, PTL DEF Spec

\* No directory is read by two threads, although any of them may have found
\* it and the roots the user selected may lie in one another.
THEOREM DirectoriesHaveOneReader == Spec => []OneReaderEach
<1>1. Typed /\ Once => OneReaderEach
  BY DEF Typed, ThreadType, Once, PlacesInv, OneReaderEach, BusyWorkers, Busy
<1> QED
  BY <1>1, OnceAlways, PTL


-----------------------------------------------------------------------------
(* The scan implements Scan.                                               *)

\* Below what is excluded everything is.
LEMMA ExcludedBelow ==
    ASSUME NEW p \in Entries, NEW q \in Entries, IsPathUnderOrEqual(p, q), IsPathExcluded(q)
    PROVE  IsPathExcluded(p)
<1>1. PICK e \in Excluded : IsPathUnderOrEqual(q, e)
  BY DEF IsPathExcluded
<1>2. e \in Seq(STRING) /\ Len(e) \in Nat \ {0} /\ SubSeq(e, 1, Len(e)) = e
  BY ExcludedAssumption, SubSeqFull
<1>3. e = SubSeq(q, 1, Len(e)) /\ Len(e) <= Len(q)
  BY <1>1, <1>2 DEF IsPathUnderOrEqual, IsPrefix
<1>4. q = SubSeq(p, 1, Len(q)) /\ Len(q) \in 1..Len(p) /\ Len(e) \in 1..Len(q)
  BY <1>2, <1>3, UnderIs, PathType
<1>5. SubSeq(SubSeq(p, 1, Len(q)), 1, Len(e)) = SubSeq(p, 1, Len(e))
  BY <1>4, ShortPrefix
<1>6. e = SubSeq(p, 1, Len(e)) /\ Len(e) <= Len(p)
  BY <1>3, <1>4, <1>5, PathType
<1> QED
  BY <1>1, <1>2, <1>6 DEF IsPathExcluded, IsPathUnderOrEqual, IsPrefix

\* A path lies below one root at most.
LEMMA OneRoot ==
    ASSUME NEW p \in Entries, NEW r \in Roots, NEW s \in Roots,
           IsPathUnderOrEqual(p, r), IsPathUnderOrEqual(p, s)
    PROVE  r = s
<1>1. r \in Entries /\ s \in Entries /\ Len(r) \in Nat /\ Len(s) \in Nat
  BY RootsType, PathType
<1>2. IsPathUnderOrEqual(r, s) \/ IsPathUnderOrEqual(s, r)
  BY <1>1, UnderChain
<1> QED
  BY <1>2 DEF Roots, CollapseRedundantRoots

\* What Handle reports is in scope.
LEMMA ChildInScope ==
    ASSUME NEW p \in Entries, NEW j \in Jobs, InRegion(j), ChildOf(p, j.path),
           Kind[p] # "link", ~IsPathExcluded(p)
    PROVE  p \in ScopeOf(Roots)
<1>1. PICK r \in Roots :
          /\ IsPathUnderOrEqual(j.path, r)
          /\ \A q \in Entries :
                 IsPathUnderOrEqual(j.path, q) /\ IsPathUnderOrEqual(q, r) =>
                     Kind[q] = "dir" /\ Device[q] = Device[r]
  BY DEF InRegion
<1>2. j.path \in Entries /\ r \in Entries
  BY JobType, RootsType
<1>3. IsPathUnderOrEqual(p, r) /\ IsPathUnderOrEqual(r, r) /\ p # r
  BY <1>1, <1>2, UnderTransitive, UnderReflexive, NoRootBelow DEF ChildOf
<1>4. r \in Between(r, p)
  BY <1>2, <1>3 DEF Between
<1>5. ASSUME NEW q \in Between(r, p) PROVE Kind[q] = "dir" /\ Device[q] = Device[r]
  <2>1. q \in Entries /\ q # p /\ IsPathUnderOrEqual(q, r) /\ IsPathUnderOrEqual(p, q)
    BY DEF Between
  <2>2. Len(q) <= Len(j.path)
    BY <1>2, <2>1, UnderShorter, PathType DEF ChildOf
  <2>3. IsPathUnderOrEqual(j.path, q)
    BY <1>2, <2>1, <2>2, UnderChain DEF ChildOf
  <2> QED
    BY <1>1, <2>1, <2>3
<1> QED
  BY <1>4, <1>5 DEF ScopeOf

\* The directories on the way from the root to a path in scope.
LEMMA ScopeAbove ==
    ASSUME NEW p \in ScopeOf(Roots), NEW r \in Roots, IsPathUnderOrEqual(p, r)
    PROVE  /\ p \in Entries /\ Kind[p] # "link" /\ ~IsPathExcluded(p)
           /\ p = r => Kind[r] = "file"
           /\ \A q \in Entries :
                  q # p /\ IsPathUnderOrEqual(q, r) /\ IsPathUnderOrEqual(p, q) =>
                      Kind[q] = "dir" /\ Device[q] = Device[r]
<1>1. p \in Entries /\ Kind[p] # "link" /\ ~IsPathExcluded(p)
  BY DEF ScopeOf
<1>2. PICK s \in Roots :
          \/ p = s /\ Kind[s] = "file"
          \/ /\ s \in Between(s, p)
             /\ \A q \in Between(s, p) : Kind[q] = "dir" /\ Device[q] = Device[s]
  BY DEF ScopeOf
<1>3. r \in Entries /\ s \in Entries /\ IsPathUnderOrEqual(p, s)
  BY <1>2, RootsType, UnderReflexive DEF Between
<1>4. s = r
  BY <1>1, <1>3, OneRoot
<1>5. CASE p = r /\ Kind[r] = "file"
  <2>1. ASSUME NEW q \in Entries, q # p, IsPathUnderOrEqual(q, r), IsPathUnderOrEqual(p, q) PROVE FALSE
    BY <1>1, <1>5, <2>1, UnderShorter, PathType
  <2> QED
    BY <1>1, <1>5, <2>1
<1>6. CASE r \in Between(r, p) /\ \A q \in Between(r, p) : Kind[q] = "dir" /\ Device[q] = Device[r]
  BY <1>1, <1>6 DEF Between
<1> QED
  BY <1>2, <1>4, <1>5, <1>6

\* Only empty directories are removed.
FilesInv == \A p \in files, q \in Entries : IsPathUnderOrEqual(p, q) => q \in files

\* Whatever is in scope and not reported is still to be found: a thread has
\* read it, or a directory above it, or is about to open one that is above it.
ToOpen(d) == d \in Waiting \/ \E w \in Workers : pc[w] = "open" /\ job[w].path = d

Found(q, p) ==
    \/ q \in seeds
    \/ \E w \in Workers : q \in unread[w] \cup batch[w]
    \/ q # p /\ ToOpen(q)

Pending(p) == \E q \in Entries : IsPathUnderOrEqual(p, q) /\ Found(q, p)

CompleteInv ==
    ~cancelToken => \A p \in files \cap ScopeOf(Roots) : emitted[p] = 0 => Pending(p)


LEMMA FilesStep == Typed /\ FilesInv /\ [Next]_vars => FilesInv'
<1> SUFFICES ASSUME Typed, FilesInv, [Next]_vars PROVE FilesInv'
  OBVIOUS
<1> USE DEF queue, threads, notMain, notWorkers
<1>0. files \subseteq Entries
  BY DEF Typed, ScanType
<1>1. CASE files' = files
  BY <1>1 DEF FilesInv
<1>2. ASSUME NEW x \in Entries, Vanish(x) PROVE FilesInv'
  <2>1. files' = files \ {x} /\ x \in files /\ Children(x) = {}
    BY <1>2 DEF Vanish
  <2>2. ASSUME NEW p \in files', NEW q \in Entries, IsPathUnderOrEqual(p, q) PROVE q \in files'
    <3>1. p \in files /\ p \in Entries /\ q \in files /\ p # x
      BY <1>0, <2>1, <2>2 DEF FilesInv
    <3>2. ASSUME q = x PROVE FALSE
      <4>1. PICK c \in Entries : ChildOf(c, x) /\ IsPathUnderOrEqual(p, c)
        BY <2>2, <3>1, <3>2, NextBelow
      <4>2. c \in files
        BY <3>1, <4>1 DEF FilesInv
      <4> QED
        BY <2>1, <4>1, <4>2 DEF Children, ChildOf
    <3> QED
      BY <2>1, <3>1, <3>2
  <2> QED
    BY <2>2 DEF FilesInv
<1>3. ASSUME NEW r \in Entries, Seed(r) PROVE FilesInv'
  BY <1>1, <1>3 DEF Seed
<1>4. CASE StartThreads \/ Join \/ Cancel \/ Returned \/ UNCHANGED vars
  BY <1>1, <1>4 DEF StartThreads, Join, Cancel, Returned, vars
<1>5. ASSUME NEW w \in Workers, Worker(w) PROVE FilesInv'
  BY <1>1, <1>5 DEF Worker, Pop, PopNothing, Open, Read, Done, Handle
<1> QED
  BY <1>2, <1>3, <1>4, <1>5 DEF Next, Main

\* A step that reports nothing and keeps whatever was to be found.
LEMMA StillFound ==
    ASSUME CompleteInv, files' \subseteq files, cancelToken' = FALSE => cancelToken = FALSE,
           \A p \in files' : emitted'[p] = 0 => emitted[p] = 0,
           \A p \in files' \cap ScopeOf(Roots) : emitted'[p] = 0 =>
               \A q \in Entries : IsPathUnderOrEqual(p, q) /\ Found(q, p) =>
                   Found(q, p)' \/ Pending(p)',
           cancelToken' \in BOOLEAN, cancelToken \in BOOLEAN
    PROVE  CompleteInv'
<1> SUFFICES ASSUME ~cancelToken', NEW p \in files' \cap ScopeOf(Roots), emitted'[p] = 0
             PROVE  Pending(p)'
  BY DEF CompleteInv, ScopeOf, Between
<1>1. Pending(p) /\ p \in Entries
  BY DEF CompleteInv, ScopeOf
<1>2. PICK q \in Entries : IsPathUnderOrEqual(p, q) /\ Found(q, p)
  BY <1>1 DEF Pending
<1>3. Found(q, p)' \/ Pending(p)'
  BY <1>2
<1> QED
  BY <1>2, <1>3 DEF Pending


LEMMA CompleteStep == Typed /\ Once /\ FilesInv /\ CompleteInv /\ [Next]_vars => CompleteInv'
<1> SUFFICES ASSUME Typed, Once, FilesInv, CompleteInv, [Next]_vars PROVE CompleteInv'
  OBVIOUS
<1> USE DEF queue, threads, notMain, notWorkers, Goto
<1>0. ThreadType /\ ScanType /\ PhaseInv /\ ReadInv
  BY DEF Typed, Once
<1>1. ASSUME UNCHANGED <<emitted, seeds, jobs, job, unread, batch>>, files' \subseteq files,
             cancelToken' = cancelToken, \A v \in Workers : pc[v] = "open" => pc'[v] = "open"
      PROVE  CompleteInv'
  BY <1>0, <1>1, StillFound DEF ScanType, Found, ToOpen, Waiting
<1>2. ASSUME NEW r \in Entries, Seed(r) PROVE CompleteInv'
  <2>1. /\ r \in seeds /\ r \in Roots /\ seeds' = seeds \ {r}
        /\ UNCHANGED <<pc, job, unread, batch, files, cancelToken>>
        /\ emitted' \in {emitted, [emitted EXCEPT ![r] = @ + 1]}
        /\ emitted[r] = 0
    BY <1>0, <1>2 DEF Seed, ScanType, Once, FreshInv
  <2>2. Waiting \subseteq Waiting'
    <3>1. CASE jobs' = jobs
      BY <3>1 DEF Waiting
    <3>2. CASE jobs' # jobs
      <4> DEFINE j == [path |-> r, dev |-> Device[r]]
      <4>1. jobs' = Append(jobs, j) /\ j \in Jobs
        BY <1>2, <3>2, JobType DEF Seed
      <4> HIDE DEF j
      <4> QED
        BY <1>0, <4>1, Push
    <3> QED
      BY <3>1, <3>2
  <2>3. \A p \in files' : emitted'[p] = 0 => emitted[p] = 0
    BY <1>0, <2>1 DEF ScanType
  <2>4. ASSUME NEW p \in files \cap ScopeOf(Roots), emitted'[p] = 0,
               NEW q \in Entries, IsPathUnderOrEqual(p, q), Found(q, p)
        PROVE  Found(q, p)'
    <3>1. CASE q # r
      BY <2>1, <2>2, <2>4, <3>1 DEF Found, ToOpen
    <3>2. CASE q = r
      <4>1. p \in Entries /\ r \in files /\ ~IsPathExcluded(r)
        BY <2>1, <2>4, <3>2, ScopeAbove, ExcludedBelow DEF FilesInv
      <4>2. IsPathUnderOrEqual(r, r) /\ (p = r => Kind[r] = "file")
            /\ (p # r => Kind[r] = "dir")
        BY <2>1, <2>4, <3>2, ScopeAbove, UnderReflexive
      <4>3. p # r
        BY <1>0, <1>2, <2>4, <4>1, <4>2 DEF Seed, ScanType
      <4>4. jobs' = Append(jobs, [path |-> r, dev |-> Device[r]])
        BY <1>2, <4>1, <4>2, <4>3 DEF Seed
      <4>5. r \in Waiting'
        BY <1>0, <4>4, JobType, Push
      <4> QED
        BY <3>2, <4>3, <4>5 DEF Found, ToOpen
    <3> QED
      BY <3>1, <3>2
  <2> QED
    BY <1>0, <2>1, <2>3, <2>4, StillFound DEF ScanType
<1>3. CASE StartThreads
  BY <1>0, <1>1, <1>3 DEF StartThreads, PhaseInv
<1>4. CASE Join \/ Returned \/ UNCHANGED vars
  BY <1>1, <1>4 DEF Join, Returned, vars
<1>5. CASE Cancel
  BY <1>5 DEF Cancel, CompleteInv
<1>6. ASSUME NEW w \in Workers, Pop(w) PROVE CompleteInv'
  <2>1. \A d \in Entries : ToOpen(d) => ToOpen(d)'
    <3> SUFFICES ASSUME NEW d \in Entries, ToOpen(d) PROVE ToOpen(d)'
      OBVIOUS
    <3>1. CASE d \in Waiting'
      BY <3>1 DEF ToOpen
    <3>2. CASE d = jobs[1].path
      <4>1. pc'[w] = "open" /\ job'[w] = jobs[1]
        BY <1>0, <1>6, Take DEF Pop, ThreadType
      <4> QED
        BY <3>2, <4>1 DEF ToOpen
    <3>3. ASSUME NEW v \in Workers, pc[v] = "open", job[v].path = d PROVE ToOpen(d)'
      <4>1. v # w /\ pc'[v] = "open" /\ job'[v] = job[v]
        BY <1>0, <1>6, <3>3 DEF Pop, ThreadType
      <4> QED
        BY <3>3, <4>1 DEF ToOpen
    <3> QED
      BY <1>0, <1>6, <3>1, <3>2, <3>3, Take DEF ToOpen
  <2>2. UNCHANGED <<seeds, unread, batch, emitted, files, cancelToken>>
    BY <1>6 DEF Pop
  <2> QED
    BY <1>0, <2>1, <2>2, StillFound DEF ScanType, Found
<1>7. ASSUME NEW w \in Workers, PopNothing(w) \/ Done(w) PROVE CompleteInv'
  <2>1. /\ UNCHANGED <<seeds, jobs, unread, batch, emitted, files, cancelToken>>
        /\ \A v \in Workers : pc[v] = "open" => pc'[v] = "open" /\ job'[v] = job[v]
    BY <1>0, <1>7 DEF PopNothing, Done, ThreadType
  <2> QED
    BY <1>0, <2>1, StillFound DEF ScanType, Found, ToOpen, Waiting
<1>8. ASSUME NEW w \in Workers, Open(w) PROVE CompleteInv'
  <2>1. /\ UNCHANGED <<seeds, jobs, job, batch, emitted, files, cancelToken>> /\ pc[w] = "open"
        /\ unread[w] = {} /\ \A v \in Workers \ {w} : unread'[v] = unread[v] /\ pc'[v] = pc[v]
    BY <1>0, <1>8 DEF Open, ThreadType, ReadInv
  <2>2. ASSUME NEW p \in files \cap ScopeOf(Roots),
               NEW q \in Entries, IsPathUnderOrEqual(p, q), Found(q, p)
        PROVE  Found(q, p)' \/ Pending(p)'
    <3>1. CASE q # p /\ q = job[w].path
      <4>1. p \in Entries /\ q \in files
        BY <1>0, <2>2 DEF FilesInv, ScanType
      <4>2. PICK c \in Entries : ChildOf(c, q) /\ IsPathUnderOrEqual(p, c)
        BY <2>2, <3>1, <4>1, NextBelow
      <4>3. c \in Children(q)
        BY <4>1, <4>2 DEF FilesInv, Children, ChildOf
      <4>4. c \in unread'[w]
        BY <1>0, <1>8, <3>1, <4>1, <4>3 DEF Open, ThreadType
      <4> QED
        BY <4>2, <4>4 DEF Pending, Found
    <3>2. CASE ~(q # p /\ q = job[w].path)
      BY <2>1, <2>2, <3>2 DEF Found, ToOpen, Waiting
    <3> QED
      BY <3>1, <3>2
  <2> QED
    BY <1>0, <2>1, <2>2, StillFound DEF ScanType
<1>9. ASSUME NEW w \in Workers, Read(w) PROVE CompleteInv'
  <2>1. /\ UNCHANGED <<seeds, jobs, job, emitted, files, cancelToken>>
        /\ \A v \in Workers : pc[v] = "open" => pc'[v] = "open"
        /\ \A v \in Workers \ {w} : unread'[v] \cup batch'[v] = unread[v] \cup batch[v]
    BY <1>0, <1>9 DEF Read, ThreadType
  <2>2. ~cancelToken => unread[w] \cup batch[w] \subseteq unread'[w] \cup batch'[w]
    BY <1>0, <1>9 DEF Read, ThreadType
  <2>3. CASE cancelToken
    BY <2>1, <2>3 DEF CompleteInv
  <2>4. CASE ~cancelToken
    <3>1. \A v \in Workers : unread[v] \cup batch[v] \subseteq unread'[v] \cup batch'[v]
      BY <2>1, <2>2, <2>4
    <3> QED
      BY <1>0, <2>1, <3>1, StillFound DEF ScanType, Found, ToOpen, Waiting
  <2> QED
    BY <2>3, <2>4
<1>10. ASSUME NEW w \in Workers, NEW x \in Entries, Handle(w, x) PROVE CompleteInv'
  <2>1. /\ UNCHANGED <<seeds, pc, job, unread, files, cancelToken>>
        /\ batch' = [batch EXCEPT ![w] = @ \ {x}] /\ emitted[x] = 0 /\ x \notin Roots
        /\ emitted' \in {emitted, [emitted EXCEPT ![x] = 1]}
        /\ job[w] \in Jobs /\ InRegion(job[w]) /\ ChildOf(x, job[w].path)
    BY <1>10, HandleFacts DEF Handle
  <2>2. Waiting \subseteq Waiting'
    <3>1. CASE jobs' = jobs
      BY <3>1 DEF Waiting
    <3>2. CASE jobs' # jobs
      <4> DEFINE j == [path |-> x, dev |-> job[w].dev]
      <4>1. jobs' = Append(jobs, j) /\ j \in Jobs
        BY <1>10, <3>2, HandleFacts, JobType
      <4> HIDE DEF j
      <4> QED
        BY <1>0, <4>1, Push
    <3> QED
      BY <3>1, <3>2
  <2>3. \A p \in files' : emitted'[p] = 0 => emitted[p] = 0
    BY <1>0, <2>1 DEF ScanType
  <2>4. ASSUME NEW p \in files \cap ScopeOf(Roots), emitted'[p] = 0,
               NEW q \in Entries, IsPathUnderOrEqual(p, q), Found(q, p)
        PROVE  Found(q, p)'
    <3>1. CASE q # x
      BY <1>0, <2>1, <2>2, <2>4, <3>1 DEF Found, ToOpen, ThreadType
    <3>2. CASE q = x
      <4>1. p \in Entries /\ x \in files
        BY <1>0, <2>4, <3>2 DEF FilesInv, ScanType
      <4>2. PICK r \in Roots : IsPathUnderOrEqual(job[w].path, r) /\ job[w].dev = Device[r]
        BY <2>1 DEF InRegion
      <4>3. r \in Entries /\ job[w].path \in Entries
        BY <2>1, RootsType, JobType
      <4>4. IsPathUnderOrEqual(x, r) /\ IsPathUnderOrEqual(p, r)
        BY <2>1, <2>4, <3>2, <4>1, <4>2, <4>3, UnderTransitive DEF ChildOf
      <4>5. /\ ~IsPathExcluded(x) /\ Kind[p] # "link"
            /\ x # p => Kind[x] = "dir" /\ Device[x] = job[w].dev
        BY <2>4, <3>2, <4>1, <4>2, <4>4, ScopeAbove, ExcludedBelow
      <4>6. Kind[x] # "link"
        BY <4>5
      <4>7. x # p
        BY <1>0, <1>10, <2>1, <2>4, <4>1, <4>5, <4>6 DEF Handle, ScanType
      <4>8. jobs' = Append(jobs, [path |-> x, dev |-> job[w].dev])
        BY <1>10, <2>1, <4>1, <4>5, <4>7 DEF Handle, Descends
      <4>9. x \in Waiting'
        BY <1>0, <2>1, <4>8, JobType, Push
      <4> QED
        BY <3>2, <4>7, <4>9 DEF Found, ToOpen
    <3> QED
      BY <3>1, <3>2
  <2> QED
    BY <1>0, <2>1, <2>3, <2>4, StillFound DEF ScanType
<1>11. ASSUME NEW p \in Entries, Vanish(p) PROVE CompleteInv'
  BY <1>1, <1>11 DEF Vanish
<1> QED
  BY <1>2, <1>3, <1>4, <1>5, <1>6, <1>7, <1>8, <1>9, <1>10, <1>11 DEF Next, Main, Worker


ScanInv == Typed /\ NobodyLeavesEarly /\ Once /\ FilesInv /\ CompleteInv

LEMMA ScanInvInit == Init => FilesInv /\ CompleteInv
<1> SUFFICES ASSUME Init PROVE FilesInv /\ CompleteInv
  OBVIOUS
<1>1. FilesInv
  BY DEF Init, FilesInv
<1>2. ASSUME NEW p \in files \cap ScopeOf(Roots) PROVE Pending(p)
  <2>1. PICK r \in Roots : p = r \/ r \in Between(r, p)
    BY DEF ScopeOf
  <2>2. p \in Entries /\ r \in Entries /\ IsPathUnderOrEqual(p, r)
    BY <2>1, RootsType, UnderReflexive DEF ScopeOf, Between
  <2> QED
    BY <2>2 DEF Init, Pending, Found
<1> QED
  BY <1>1, <1>2 DEF CompleteInv

LEMMA ScanInvAlways == Spec => []ScanInv
<1>1. Init => FilesInv /\ CompleteInv
  BY ScanInvInit
<1>2. Typed /\ Once /\ FilesInv /\ CompleteInv /\ [Next]_vars => FilesInv' /\ CompleteInv'
  BY FilesStep, CompleteStep
<1>3. Typed /\ NobodyLeavesEarly /\ Once /\ FilesInv /\ CompleteInv <=> ScanInv
  BY DEF ScanInv
<1> QED
  BY <1>1, <1>2, <1>3, OnceAlways, ThreadsLeaveTogether, PTL DEF Spec

\* When the last thread has left, nothing is still to be found.
LEMMA NothingPending ==
    ASSUME ScanInv, Join, ~cancelToken, NEW p \in files \cap ScopeOf(Roots)
    PROVE  emitted[p] = 1
<1> USE DEF ScanInv, Typed, Once
<1>1. seeds = {} /\ jobs = <<>> /\ \A w \in Workers : pc[w] = "exited"
  BY WorkersAssumption DEF Join, PhaseInv, NobodyLeavesEarly
<1>2. \A w \in Workers : unread[w] = {} /\ batch[w] = {}
  BY <1>1 DEF ReadInv
<1>3. Waiting = {}
  BY <1>1 DEF Waiting
<1>4. ~Pending(p)
  BY <1>1, <1>2, <1>3 DEF Pending, Found, ToOpen
<1>5. emitted[p] # 0
  BY <1>4 DEF CompleteInv
<1> QED
  BY <1>5 DEF FreshInv, ScanType

LEMMA PromiseStep == ScanInv /\ [Next]_vars => [Promise!Next]_(Promise!vars)
<1> SUFFICES ASSUME ScanInv, [Next]_vars, ~UNCHANGED Promise!vars PROVE Promise!Next
  OBVIOUS
<1> USE DEF ScanInv, queue, threads, notMain, notWorkers
<1>0. ScanType /\ PhaseInv /\ FreshInv /\ Typed /\ Once
  BY DEF Typed, Once
<1>1. ASSUME UNCHANGED <<files, emitted, cancelToken>>, main' = main \/ (main # "returned" /\ main' # "returned")
      PROVE  FALSE
  BY <1>1 DEF Promise!vars
<1>2. ASSUME NEW p \in Entries, emitted' = [emitted EXCEPT ![p] = 1], emitted[p] = 0,
             p \in ScopeOf(Roots), main # "returned", UNCHANGED <<files, cancelToken, main>>
      PROVE  Promise!Next
  BY <1>2 DEF Promise!Next, Promise!Emit
<1>3. ASSUME NEW r \in Entries, Seed(r) PROVE Promise!Next
  <2>1. r \in Roots /\ emitted[r] = 0 /\ main = "seed"
    BY <1>0, <1>3 DEF Seed, ScanType, FreshInv
  <2>2. Kind[r] = "file" /\ ~IsPathExcluded(r) /\ emitted' = [emitted EXCEPT ![r] = emitted[r] + 1]
    BY <1>1, <1>3 DEF Seed
  <2>3. r \in ScopeOf(Roots)
    BY <2>1, <2>2 DEF ScopeOf
  <2>4. emitted[r] + 1 = 1
    BY <2>1
  <2> QED
    BY <1>2, <1>3, <2>1, <2>2, <2>3, <2>4 DEF Seed
<1>4. ASSUME NEW w \in Workers, NEW p \in Entries, Handle(w, p) PROVE Promise!Next
  <2>1. /\ job[w] \in Jobs /\ InRegion(job[w]) /\ ChildOf(p, job[w].path) /\ emitted[p] = 0
        /\ pc[w] = "read" /\ emitted' \in {emitted, [emitted EXCEPT ![p] = 1]}
    BY <1>0, <1>4, HandleFacts
  <2>2. emitted' # emitted /\ UNCHANGED <<files, cancelToken, main>>
    BY <1>1, <1>4 DEF Handle
  <2>3. Kind[p] # "link" /\ ~IsPathExcluded(p)
    BY <1>4, <2>2 DEF Handle
  <2>4. p \in ScopeOf(Roots)
    BY <2>1, <2>3, ChildInScope
  <2>5. main # "returned"
    BY <1>0, <2>1 DEF PhaseInv
  <2> QED
    BY <1>2, <2>1, <2>2, <2>4, <2>5
<1>5. CASE Join
  <2>1. cancelToken \/ \A p \in files \cap ScopeOf(Roots) : emitted[p] = 1
    BY <1>5, NothingPending
  <2> QED
    BY <1>5, <2>1 DEF Join, Promise!Next, Promise!Finish
<1>6. CASE Cancel
  BY <1>6 DEF Cancel, Promise!Next, Promise!Cancel
<1>7. ASSUME NEW p \in Entries, Vanish(p) PROVE Promise!Next
  BY <1>7 DEF Vanish, Promise!Next, Promise!Vanish
<1>8. CASE StartThreads \/ Returned \/ UNCHANGED vars
  BY <1>1, <1>8 DEF StartThreads, Returned, vars
<1>9. ASSUME NEW w \in Workers, Pop(w) \/ PopNothing(w) \/ Open(w) \/ Read(w) \/ Done(w) PROVE FALSE
  BY <1>1, <1>9 DEF Pop, PopNothing, Open, Read, Done
<1> QED
  BY <1>3, <1>4, <1>5, <1>6, <1>7, <1>8, <1>9 DEF Next, Main, Worker

\* Every scan of every tree reports what is in scope and nothing else, once,
\* and returns when it is complete or cancelled, however the threads share
\* the directories out and whatever other programs remove meanwhile.
THEOREM ScanKeepsItsPromise == Spec => ScanPromise
<1>1. Init => Promise!Init
  BY DEF Init, Promise!Init
<1> QED
  BY <1>1, PromiseStep, ScanInvAlways, PTL DEF Spec, ScanPromise, Promise!Spec
=============================================================================
