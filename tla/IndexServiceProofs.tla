------------------------- MODULE IndexServiceProofs -------------------------
(***************************************************************************)
(* Proofs about IndexService for every set of roots and paths and every    *)
(* bound: type correctness, that a removed path stays removed, and what    *)
(* the queue of requests promises: the newest request is the one that      *)
(* counts, whatever was cancelled, skipped or reloaded before it.          *)
(***************************************************************************)
EXTENDS IndexService, FiniteSetTheorems, SequenceTheorems, TLAPS

(***************************************************************************)
(* The helpers return what they are used as.                               *)
(***************************************************************************)
LEMMA PoolOfType == ASSUME NEW S PROVE PoolOf(S) \in Pool
BY DEF PoolOf, Pool

LEMMA AddedType == ASSUME NEW pl \in Pool, NEW p \in Paths PROVE Added(pl, p) \in Pool
BY DEF Added, Pool

LEMMA RemovedType == ASSUME NEW pl \in Pool, NEW p \in Paths PROVE Removed(pl, p) \in Pool
BY DEF Removed, Pool

LEMMA RemovedUnderType ==
    ASSUME NEW pl \in Pool, NEW roots PROVE RemovedUnder(pl, roots) \in Pool
BY DEF RemovedUnder, Pool

LEMMA PlainType == ASSUME NEW kind \in Kinds PROVE Plain(kind) \in Command
BY DEF Plain, Command

LEMMA NewCommandType ==
    ASSUME TypeOK, NEW kind \in Kinds, NEW force \in BOOLEAN,
           NEW old \in SUBSET Roots, NEW roots \in SUBSET Roots
    PROVE  /\ NewCommand(kind, force, old, roots) \in Command
           /\ NewCommand(kind, force, old, roots).id \in Nat
BY DEF NewCommand, Command, TypeOK, QueueTypeOK, Uses

LEMMA ModeType == ASSUME NEW c PROVE Mode(c) \in Modes
BY DEF Mode, ModeOfDiff, Modes

LEMMA SpendType ==
    ASSUME TypeOK, NEW use \in Uses, Spend(use) PROVE used' \in [Uses -> Nat]
BY DEF Spend, TypeOK, QueueTypeOK

\* The steps of the UI thread that take a set of roots and post nothing.
HelperSaves == \E roots \in SUBSET Roots : HelperSave(roots)

Unposted == \E new \in SUBSET Roots : ChangeUnposted(new)

-----------------------------------------------------------------------------
(* Type correctness.                                                       *)

LEMMA SupersedeType ==
    ASSUME TypeOK, NEW c \in Command, c.id \in Nat, Supersede(c)
    PROVE  /\ posting' \in Seq(Command) /\ commands' \in Seq(Command)
           /\ cancelled' \in SUBSET Nat /\ scanCancels' \in SUBSET Nat
           /\ pendingBusy' \in Int /\ reloadQueued' \in BOOLEAN /\ shuttingDown' \in BOOLEAN
           /\ ui' = ui /\ UNCHANGED notUI
BY DEF TypeOK, QueueTypeOK, Supersede

LEMMA TypeInit == Init => TypeOK
<1> SUFFICES ASSUME Init PROVE TypeOK
  OBVIOUS
<1>1. PoolOf({}) \in Pool /\ disk \in {NoFile} \cup Pool
  BY PoolOfType DEF Init
<1>2. Plain("stop") \in Command
  BY PlainType DEF Kinds
<1>3. QueueTypeOK
  <2>1. <<>> \in Seq(Command)
    OBVIOUS
  <2>2. used \in [Uses -> Nat]
    BY DEF Init
  <2>3. ui \in UIStates /\ settings \in SUBSET Roots /\ elevated \in BOOLEAN
    BY DEF Init, UIStates
  <2>4. posting \in Seq(Command) /\ commands \in Seq(Command)
    BY <2>1 DEF Init
  <2>5. cancelled \in SUBSET Nat /\ scanCancels \in SUBSET Nat /\ pendingBusy \in Int
    BY DEF Init
  <2>6. reloadQueued \in BOOLEAN /\ shuttingDown \in BOOLEAN
    BY DEF Init
  <2> QED
    BY <2>2, <2>3, <2>4, <2>5, <2>6 DEF QueueTypeOK
<1>4. WorkerTypeOK
  BY <1>1, <1>2 DEF Init, WorkerTypeOK, WorkerStates, Modes
<1>5. StoreTypeOK
  <2>1. <<>> \in Seq(SUBSET Paths)
    OBVIOUS
  <2>2. pool \in Pool
    BY <1>1 DEF Init
  <2>3. asked \in SUBSET Roots /\ missed \in SUBSET Roots
    BY DEF Init
  <2> QED
    BY <1>1, <2>1, <2>2, <2>3 DEF Init, StoreTypeOK, FileOpStates
<1> QED
  BY <1>3, <1>4, <1>5 DEF TypeOK

LEMMA TypeUI == ASSUME TypeOK, UI PROVE TypeOK'
<1> USE DEF TypeOK, notUI, scanVars, workVars, flagVars, fopVars, ghostVars, requestGhosts, storeGhosts, uiVars, queueVars
<1>1. CASE RequestIndexing
  <2> DEFINE c == NewCommand("index", used["request"] > 0, {}, settings)
  <2>1. c \in Command /\ c.id \in Nat
    <3>1. (used["request"] > 0) \in BOOLEAN /\ settings \in SUBSET Roots /\ {} \in SUBSET Roots
      BY DEF QueueTypeOK
    <3> QED
      BY <3>1, NewCommandType DEF Kinds
  <2> HIDE DEF c
  <2>2. Supersede(c) /\ UNCHANGED <<settings, elevated, missed>>
    BY <1>1 DEF RequestIndexing, c
  <2>3. used' \in [Uses -> Nat]
    BY <1>1, SpendType DEF RequestIndexing, Uses
  <2>4. QueueTypeOK'
    BY <2>1, <2>2, <2>3, SupersedeType DEF QueueTypeOK
  <2>5. WorkerTypeOK' /\ StoreTypeOK'
    BY <2>1, <2>2 DEF Supersede, WorkerTypeOK, StoreTypeOK, Command
  <2> QED
    BY <2>4, <2>5 DEF TypeOK
<1>2. ASSUME NEW new \in SUBSET Roots, RequestSettingsChange(new) PROVE TypeOK'
  <2> DEFINE c == NewCommand("settings", FALSE, settings, new)
  <2>1. c \in Command /\ c.id \in Nat
    BY NewCommandType DEF QueueTypeOK, Kinds
  <2> HIDE DEF c
  <2>2. Supersede(c) /\ settings' = new /\ elevated' = elevated /\ missed' \in SUBSET Roots
    BY <1>2 DEF RequestSettingsChange, c, Differ, QueueTypeOK, StoreTypeOK
  <2>3. used' \in [Uses -> Nat]
    BY <1>2, SpendType DEF RequestSettingsChange, Uses
  <2>4. QueueTypeOK'
    BY <2>1, <2>2, <2>3, SupersedeType DEF QueueTypeOK
  <2>5. WorkerTypeOK' /\ StoreTypeOK'
    BY <2>1, <2>2 DEF Supersede, WorkerTypeOK, StoreTypeOK, Command
  <2> QED
    BY <2>4, <2>5 DEF TypeOK
<1>3. ASSUME NEW late \in BOOLEAN, HelperFinished(late) PROVE TypeOK'
  <2> DEFINE c == NewCommand("index", late, {}, settings)
  <2>1. c \in Command /\ c.id \in Nat
    BY NewCommandType DEF QueueTypeOK, Kinds
  <2> HIDE DEF c
  <2>2. Supersede(c) /\ settings' = settings /\ elevated' = FALSE /\ missed' = missed
    BY <1>3 DEF HelperFinished, c
  <2>3. used' \in [Uses -> Nat]
    BY <1>3 DEF HelperFinished, Uses, QueueTypeOK
  <2>4. QueueTypeOK'
    BY <2>1, <2>2, <2>3, SupersedeType DEF QueueTypeOK
  <2>5. WorkerTypeOK' /\ StoreTypeOK'
    BY <2>1, <2>2 DEF Supersede, WorkerTypeOK, StoreTypeOK, Command
  <2> QED
    BY <2>4, <2>5 DEF TypeOK
<1>4. CASE Elevate
  <2>1. Plain("stop") \in Command
    BY PlainType DEF Kinds
  <2>2. used' \in [Uses -> Nat]
    BY <1>4, SpendType DEF Elevate, Uses
  <2>3. QueueTypeOK'
    BY <1>4, <2>1, <2>2 DEF Elevate, QueueTypeOK
  <2>4. WorkerTypeOK' /\ StoreTypeOK'
    BY <1>4, <2>1, <2>2 DEF Elevate, WorkerTypeOK, StoreTypeOK
  <2> QED
    BY <2>3, <2>4 DEF TypeOK
<1>5. CASE RequestReload
  <2>1. Plain("reload") \in Command
    BY PlainType DEF Kinds
  <2>2. used' \in [Uses -> Nat]
    BY <1>5, SpendType DEF RequestReload, Uses
  <2>3. QueueTypeOK'
    BY <1>5, <2>1, <2>2 DEF RequestReload, QueueTypeOK
  <2>4. WorkerTypeOK' /\ StoreTypeOK'
    BY <1>5, <2>1, <2>2 DEF RequestReload, WorkerTypeOK, StoreTypeOK
  <2> QED
    BY <2>3, <2>4 DEF TypeOK
<1>6. CASE Enqueue
  <2>1. Head(posting) \in Command
    BY <1>6 DEF Enqueue, QueueTypeOK
  <2>2. QueueTypeOK'
    BY <1>6, <2>1 DEF Enqueue, QueueTypeOK
  <2>3. WorkerTypeOK' /\ StoreTypeOK'
    BY <1>6, <2>1 DEF Enqueue, WorkerTypeOK, StoreTypeOK
  <2> QED
    BY <2>2, <2>3 DEF TypeOK
<1>7. CASE \E S \in SUBSET Paths \ {{}} : RequestFileOperations(S)
  <2>0. PICK S \in SUBSET Paths \ {{}} : RequestFileOperations(S)
    BY <1>7
  <2>1. used' \in [Uses -> Nat]
    BY <2>0, SpendType DEF RequestFileOperations, Uses
  <2>2. QueueTypeOK'
    BY <2>0, <2>1 DEF RequestFileOperations, QueueTypeOK
  <2>3. WorkerTypeOK' /\ StoreTypeOK'
    BY <2>0, <2>1 DEF RequestFileOperations, WorkerTypeOK, StoreTypeOK
  <2> QED
    BY <2>2, <2>3 DEF TypeOK
<1>8. CASE Shutdown
  <2>1. used' \in [Uses -> Nat]
    BY <1>8, SpendType DEF Shutdown, Uses
  <2>2. QueueTypeOK'
    BY <1>8, <2>1 DEF Shutdown, UIStates, QueueTypeOK
  <2>3. WorkerTypeOK' /\ StoreTypeOK'
    BY <1>8, <2>1 DEF Shutdown, UIStates, WorkerTypeOK, StoreTypeOK
  <2> QED
    BY <2>2, <2>3 DEF TypeOK
<1>9. CASE JoinWorker
  <2>1. QueueTypeOK'
    BY <1>9 DEF JoinWorker, UIStates, QueueTypeOK
  <2>2. WorkerTypeOK' /\ StoreTypeOK'
    BY <1>9 DEF JoinWorker, UIStates, WorkerTypeOK, StoreTypeOK
  <2> QED
    BY <2>1, <2>2 DEF TypeOK
<1>10. CASE JoinFileOps
  <2>1. QueueTypeOK'
    BY <1>10 DEF JoinFileOps, UIStates, QueueTypeOK
  <2>2. WorkerTypeOK' /\ StoreTypeOK'
    BY <1>10 DEF JoinFileOps, UIStates, WorkerTypeOK, StoreTypeOK
  <2> QED
    BY <2>1, <2>2 DEF TypeOK
<1>11. ASSUME NEW roots \in SUBSET Roots, HelperSave(roots) PROVE TypeOK'
  <2>1. used' \in [Uses -> Nat]
    BY <1>11, SpendType DEF HelperSave, Uses
  <2>2. disk' \in Pool
    BY <1>11, PoolOfType DEF HelperSave
  <2>3. QueueTypeOK'
    BY <1>11, <2>1, <2>2 DEF HelperSave, QueueTypeOK
  <2>4. WorkerTypeOK' /\ StoreTypeOK'
    BY <1>11, <2>1, <2>2 DEF HelperSave, WorkerTypeOK, StoreTypeOK
  <2> QED
    BY <2>3, <2>4 DEF TypeOK
<1>12. ASSUME NEW new \in SUBSET Roots, ChangeUnposted(new) PROVE TypeOK'
  <2>1. used' \in [Uses -> Nat]
    BY <1>12, SpendType DEF ChangeUnposted, Uses
  <2>2. QueueTypeOK'
    BY <1>12, <2>1 DEF ChangeUnposted, QueueTypeOK
  <2>3. WorkerTypeOK' /\ StoreTypeOK'
    BY <1>12 DEF ChangeUnposted, WorkerTypeOK, StoreTypeOK
  <2> QED
    BY <2>2, <2>3 DEF TypeOK
<1> QED
  BY <1>1, <1>2, <1>3, <1>4, <1>5, <1>6, <1>7, <1>8, <1>9, <1>10, <1>11, <1>12 DEF UI

LEMMA TypeFileOps == ASSUME TypeOK, FileOps PROVE TypeOK'
<1> USE DEF TypeOK, notFileOps, scanVars, workVars, flagVars, ghostVars, requestGhosts, uiVars, queueVars, FileOpStates
<1>1. CASE TakeBatch
  <2>1. Head(jobs) \in SUBSET Paths /\ Tail(jobs) \in Seq(SUBSET Paths)
    BY <1>1 DEF TakeBatch, StoreTypeOK
  <2>2. QueueTypeOK'
    BY <1>1, <2>1 DEF TakeBatch, QueueTypeOK
  <2>3. WorkerTypeOK' /\ StoreTypeOK'
    BY <1>1, <2>1 DEF TakeBatch, WorkerTypeOK, StoreTypeOK
  <2> QED
    BY <2>2, <2>3 DEF TypeOK
<1>2. CASE FileOpsExit
  <2>1. QueueTypeOK'
    BY <1>2 DEF FileOpsExit, QueueTypeOK
  <2>2. WorkerTypeOK' /\ StoreTypeOK'
    BY <1>2 DEF FileOpsExit, WorkerTypeOK, StoreTypeOK
  <2> QED
    BY <2>1, <2>2 DEF TypeOK
<1>3. CASE \E p \in Paths : Operate(p)
  <2>0. PICK p \in Paths : Operate(p)
    BY <1>3
  <2>1. QueueTypeOK'
    BY <2>0 DEF Operate, QueueTypeOK
  <2>2. WorkerTypeOK' /\ StoreTypeOK'
    BY <2>0 DEF Operate, WorkerTypeOK, StoreTypeOK
  <2> QED
    BY <2>1, <2>2 DEF TypeOK
<1>4. CASE Record
  <2>1. QueueTypeOK'
    BY <1>4 DEF Record, QueueTypeOK
  <2>2. WorkerTypeOK' /\ StoreTypeOK'
    BY <1>4 DEF Record, WorkerTypeOK, StoreTypeOK
  <2> QED
    BY <2>1, <2>2 DEF TypeOK
<1>5. CASE Apply
  <2>1. pool' \in Pool
    BY <1>5, RemovedType DEF Apply, StoreTypeOK
  <2>2. QueueTypeOK'
    BY <1>5, <2>1 DEF Apply, QueueTypeOK
  <2>3. WorkerTypeOK' /\ StoreTypeOK'
    BY <1>5, <2>1 DEF Apply, WorkerTypeOK, StoreTypeOK
  <2> QED
    BY <2>2, <2>3 DEF TypeOK
<1>6. CASE ReportBatch
  <2>1. QueueTypeOK'
    BY <1>6 DEF ReportBatch, QueueTypeOK
  <2>2. WorkerTypeOK' /\ StoreTypeOK'
    BY <1>6 DEF ReportBatch, WorkerTypeOK, StoreTypeOK
  <2> QED
    BY <2>1, <2>2 DEF TypeOK
<1> QED
  BY <1>1, <1>2, <1>3, <1>4, <1>5, <1>6 DEF FileOps

LEMMA TypeWorker == ASSUME TypeOK, Worker PROVE TypeOK'
<1> USE DEF TypeOK, notWorker, notQueue, scanVars, workVars, flagVars, fopVars, ghostVars, requestGhosts, storeGhosts, uiVars,
            WorkerStates
<1>1. CASE Take
  <2>1. Head(commands) \in Command /\ Tail(commands) \in Seq(Command)
    BY <1>1 DEF Take, QueueTypeOK
  <2>2. QueueTypeOK'
    BY <1>1, <2>1 DEF Take, QueueTypeOK
  <2>3. WorkerTypeOK' /\ StoreTypeOK'
    BY <1>1, <2>1 DEF Take, WorkerTypeOK, StoreTypeOK
  <2> QED
    BY <2>2, <2>3 DEF TypeOK
<1>2. CASE WorkerExits \/ SkipCommand \/ BeginCommand
  <2>1. QueueTypeOK'
    BY <1>2 DEF WorkerExits, SkipCommand, BeginCommand, QueueTypeOK
  <2>3. StoreTypeOK'
    BY <1>2 DEF WorkerExits, SkipCommand, BeginCommand, StoreTypeOK
  <2>4. ASSUME WorkerExits PROVE WorkerTypeOK'
    BY <2>4 DEF WorkerExits, WorkerTypeOK
  <2>5. ASSUME SkipCommand PROVE WorkerTypeOK'
    BY <2>5 DEF SkipCommand, WorkerTypeOK
  <2>6. ASSUME BeginCommand PROVE WorkerTypeOK'
    BY <2>6 DEF BeginCommand, WorkerTypeOK
  <2>2. WorkerTypeOK' /\ StoreTypeOK'
    BY <1>2, <2>3, <2>4, <2>5, <2>6
  <2> QED
    BY <2>1, <2>2 DEF TypeOK
<1>3. CASE BeginReload \/ StopMonitoring
  <2>1. QueueTypeOK'
    BY <1>3 DEF BeginReload, StopMonitoring, QueueTypeOK
  <2>2. WorkerTypeOK' /\ StoreTypeOK'
    BY <1>3 DEF BeginReload, StopMonitoring, WorkerTypeOK, StoreTypeOK
  <2> QED
    BY <2>1, <2>2 DEF TypeOK
<1>4. CASE MarkScan
  <2>1. Mode(cmd) \in Modes
    BY ModeType
  <2>2. todo' \in SUBSET Paths
    BY <1>4 DEF MarkScan, Under
  <2>3. staged' \in Pool
    BY <1>4, PoolOfType DEF MarkScan
  <2>4. wpc' \in WorkerStates
    BY <1>4 DEF MarkScan
  <2>5. QueueTypeOK'
    BY <1>4, <2>1, <2>2, <2>3, <2>4 DEF MarkScan, QueueTypeOK
  <2>6. WorkerTypeOK' /\ StoreTypeOK'
    BY <1>4, <2>1, <2>2, <2>3, <2>4 DEF MarkScan, WorkerTypeOK, StoreTypeOK
  <2> QED
    BY <2>5, <2>6 DEF TypeOK
<1>5. CASE ReadFreshFile
  <2>1. QueueTypeOK'
    BY <1>5 DEF ReadFreshFile, QueueTypeOK
  <2>2. WorkerTypeOK' /\ StoreTypeOK'
    BY <1>5 DEF ReadFreshFile, WorkerTypeOK, StoreTypeOK
  <2> QED
    BY <2>1, <2>2 DEF TypeOK
<1>6. CASE RejectFile
  <2>1. QueueTypeOK'
    BY <1>6 DEF RejectFile, Under, Modes, QueueTypeOK
  <2>2. WorkerTypeOK' /\ StoreTypeOK'
    BY <1>6 DEF RejectFile, Under, Modes, WorkerTypeOK, StoreTypeOK
  <2> QED
    BY <2>1, <2>2 DEF TypeOK
<1>7. CASE SwapFile
  <2>1. buf' \in Pool /\ staleLoad' \in BOOLEAN
    BY <1>7, PoolOfType DEF SwapFile, Covers
  <2>2. QueueTypeOK'
    BY <1>7, <2>1 DEF SwapFile, QueueTypeOK
  <2>3. WorkerTypeOK' /\ StoreTypeOK'
    BY <1>7, <2>1 DEF SwapFile, WorkerTypeOK, StoreTypeOK
  <2> QED
    BY <2>2, <2>3 DEF TypeOK
<1>8. CASE \E p \in Paths : Look(p)
  <2>0. PICK p \in Paths : Look(p)
    BY <1>8
  <2>1. QueueTypeOK'
    BY <2>0 DEF Look, QueueTypeOK
  <2>2. WorkerTypeOK' /\ StoreTypeOK'
    BY <2>0 DEF Look, WorkerTypeOK, StoreTypeOK
  <2> QED
    BY <2>1, <2>2 DEF TypeOK
<1>9. CASE \E p \in Paths : Emit(p)
  <2>0. PICK p \in Paths : Emit(p)
    BY <1>9
  <2>1. staged' \in Pool /\ pool' \in Pool
    BY <2>0, AddedType DEF Emit, WorkerTypeOK, StoreTypeOK
  <2>2. QueueTypeOK'
    BY <2>0, <2>1 DEF Emit, QueueTypeOK
  <2>3. WorkerTypeOK' /\ StoreTypeOK'
    BY <2>0, <2>1 DEF Emit, WorkerTypeOK, StoreTypeOK
  <2> QED
    BY <2>2, <2>3 DEF TypeOK
<1>10. CASE ScanCompletes
  <2>1. staged' \in Pool
    BY <1>10, PoolOfType DEF ScanCompletes, WorkerTypeOK
  <2>2. QueueTypeOK'
    BY <1>10, <2>1 DEF ScanCompletes, QueueTypeOK
  <2>3. WorkerTypeOK' /\ StoreTypeOK'
    BY <1>10, <2>1 DEF ScanCompletes, WorkerTypeOK, StoreTypeOK
  <2> QED
    BY <2>2, <2>3 DEF TypeOK
<1>11. CASE ScanCancelled
  <2>1. staged' \in Pool
    BY <1>11, PoolOfType DEF ScanCancelled
  <2>2. QueueTypeOK'
    BY <1>11, <2>1 DEF ScanCancelled, QueueTypeOK
  <2>3. WorkerTypeOK' /\ StoreTypeOK'
    BY <1>11, <2>1 DEF ScanCancelled, WorkerTypeOK, StoreTypeOK
  <2> QED
    BY <2>2, <2>3 DEF TypeOK
<1>12. CASE PruneRoots
  <2>1. pool' \in Pool
    BY <1>12, RemovedUnderType DEF PruneRoots, StoreTypeOK
  <2>2. QueueTypeOK'
    BY <1>12, <2>1 DEF PruneRoots, QueueTypeOK
  <2>3. WorkerTypeOK' /\ StoreTypeOK'
    BY <1>12, <2>1 DEF PruneRoots, WorkerTypeOK, StoreTypeOK
  <2> QED
    BY <2>2, <2>3 DEF TypeOK
<1>13. CASE Serialize
  <2>1. QueueTypeOK'
    BY <1>13 DEF Serialize, QueueTypeOK
  <2>2. WorkerTypeOK' /\ StoreTypeOK'
    BY <1>13 DEF Serialize, WorkerTypeOK, StoreTypeOK
  <2> QED
    BY <2>1, <2>2 DEF TypeOK
<1>14. CASE WriteFile
  <2>1. buf' \in Pool
    BY <1>14, PoolOfType DEF WriteFile
  <2>2. QueueTypeOK'
    BY <1>14, <2>1 DEF WriteFile, QueueTypeOK
  <2>3. WorkerTypeOK' /\ StoreTypeOK'
    BY <1>14, <2>1 DEF WriteFile, WorkerTypeOK, StoreTypeOK
  <2> QED
    BY <2>2, <2>3 DEF TypeOK
<1>15. CASE FinishScan
  <2>1. QueueTypeOK'
    BY <1>15 DEF FinishScan, QueueTypeOK
  <2>2. WorkerTypeOK' /\ StoreTypeOK'
    BY <1>15 DEF FinishScan, WorkerTypeOK, StoreTypeOK
  <2> QED
    BY <2>1, <2>2 DEF TypeOK
<1>16. CASE \E p \in Paths : Reapply(p)
  <2>0. PICK p \in Paths : Reapply(p)
    BY <1>16
  <2>1. pool' \in Pool
    BY <2>0, RemovedType DEF Reapply, StoreTypeOK
  <2>2. QueueTypeOK'
    BY <2>0, <2>1 DEF Reapply, QueueTypeOK
  <2>3. WorkerTypeOK' /\ StoreTypeOK'
    BY <2>0, <2>1 DEF Reapply, WorkerTypeOK, StoreTypeOK
  <2> QED
    BY <2>2, <2>3 DEF TypeOK
<1>17. CASE Complete
  <2>1. monitored' \in SUBSET Roots
    BY <1>17 DEF Complete, WorkerTypeOK, Command
  <2>2. QueueTypeOK'
    BY <1>17, <2>1 DEF Complete, Modes, QueueTypeOK
  <2>3. WorkerTypeOK' /\ StoreTypeOK'
    BY <1>17, <2>1 DEF Complete, Modes, WorkerTypeOK, StoreTypeOK
  <2> QED
    BY <2>2, <2>3 DEF TypeOK
<1>18. CASE EndBusy
  <2>1. cmd' \in Command
    BY <1>18, PlainType DEF EndBusy, Kinds
  <2>2. QueueTypeOK'
    BY <1>18, <2>1 DEF EndBusy, QueueTypeOK
  <2>3. WorkerTypeOK' /\ StoreTypeOK'
    BY <1>18, <2>1 DEF EndBusy, WorkerTypeOK, StoreTypeOK
  <2> QED
    BY <2>2, <2>3 DEF TypeOK
<1>19. CASE ReportIdle
  <2>1. QueueTypeOK'
    BY <1>19 DEF ReportIdle, QueueTypeOK
  <2>2. WorkerTypeOK' /\ StoreTypeOK'
    BY <1>19 DEF ReportIdle, WorkerTypeOK, StoreTypeOK
  <2> QED
    BY <2>1, <2>2 DEF TypeOK
<1>20. CASE ReloadReads
  <2>1. QueueTypeOK'
    BY <1>20 DEF ReloadReads, QueueTypeOK
  <2>2. WorkerTypeOK' /\ StoreTypeOK'
    BY <1>20 DEF ReloadReads, WorkerTypeOK, StoreTypeOK
  <2> QED
    BY <2>1, <2>2 DEF TypeOK
<1>21. CASE ReloadSwaps
  <2>1. buf' \in Pool /\ staleLoad' \in BOOLEAN
    BY <1>21, PoolOfType DEF ReloadSwaps, Covers
  <2>2. QueueTypeOK'
    BY <1>21, <2>1 DEF ReloadSwaps, QueueTypeOK
  <2>3. WorkerTypeOK' /\ StoreTypeOK'
    BY <1>21, <2>1 DEF ReloadSwaps, WorkerTypeOK, StoreTypeOK
  <2> QED
    BY <2>2, <2>3 DEF TypeOK
<1> QED
  BY <1>1, <1>2, <1>3, <1>4, <1>5, <1>6, <1>7, <1>8, <1>9, <1>10, <1>11,
     <1>12, <1>13, <1>14, <1>15, <1>16, <1>17, <1>18, <1>19, <1>20, <1>21 DEF Worker

LEMMA TypeStep == TypeOK /\ [Next]_vars => TypeOK'
<1>1. ASSUME TypeOK, UNCHANGED vars PROVE TypeOK'
  <2> USE <1>1 DEF TypeOK, vars, uiVars, queueVars, scanVars, workVars, flagVars, fopVars, ghostVars, requestGhosts, storeGhosts
  <2>1. QueueTypeOK'
    BY DEF QueueTypeOK
  <2>2. WorkerTypeOK'
    BY DEF WorkerTypeOK
  <2>3. StoreTypeOK'
    BY DEF StoreTypeOK
  <2> QED
    BY <2>1, <2>2, <2>3
<1> QED
  BY <1>1, TypeUI, TypeWorker, TypeFileOps DEF Next, Rest

\* Every variable keeps its type, whatever the threads do.
THEOREM TypeCorrect == Spec => []TypeOK
<1> QED
  BY TypeInit, TypeStep, PTL DEF Spec

-----------------------------------------------------------------------------
(* A removed path stays removed. RemovalInv is inductive: every live entry  *)
(* of such a path is matched by a removal still owed, and only a scan that  *)
(* is marked can have looked at it.                                         *)

LEMMA RemovalInit == Init => RemovalInv
<1> SUFFICES ASSUME Init PROVE RemovalInv
  OBVIOUS
<1>1. TypeOK
  BY TypeInit
<1>2. WorkerInStep
  BY DEF Init, WorkerInStep, MarkedStates, SavingStates
<1>3. RemovalsMatchEntries
  BY DEF Init, RemovalsMatchEntries
<1> QED
  BY <1>1, <1>2, <1>3 DEF RemovalInv

\* What the two conjuncts depend on; a step of the UI thread leaves it alone.
LEMMA RemovalFrame ==
    ASSUME RemovalInv, UNCHANGED <<scanVars, wpc, workVars, fpc, op, pool, fs, gone>>
    PROVE  WorkerInStep' /\ RemovalsMatchEntries'
<1> USE DEF RemovalInv, scanVars, workVars
<1>1. WorkerInStep'
  BY DEF WorkerInStep, MarkedStates, SavingStates
<1>2. RemovalsMatchEntries'
  BY DEF RemovalsMatchEntries, Owed, Coming
<1> QED
  BY <1>1, <1>2

LEMMA RemovalUI ==
    ASSUME RemovalInv, UI PROVE WorkerInStep' /\ RemovalsMatchEntries'
<1>1. UNCHANGED <<scanVars, wpc, workVars, fpc, op, pool, fs, gone>>
  <2> USE DEF notUI, fopVars, ghostVars, storeGhosts
  <2>1. CASE RequestIndexing \/ Elevate \/ RequestReload \/ Enqueue
    BY <2>1 DEF RequestIndexing, Supersede, Elevate, RequestReload, Enqueue
  <2>2. CASE Shutdown \/ JoinWorker \/ JoinFileOps \/ HelperSaves
    BY <2>2 DEF Shutdown, JoinWorker, JoinFileOps, HelperSaves, HelperSave
  <2>3. CASE \E late \in BOOLEAN : HelperFinished(late)
    BY <2>3 DEF HelperFinished, Supersede
  <2>4. CASE \E new \in SUBSET Roots : RequestSettingsChange(new)
    BY <2>4 DEF RequestSettingsChange, Supersede
  <2>5. CASE \E S \in SUBSET Paths \ {{}} : RequestFileOperations(S)
    BY <2>5 DEF RequestFileOperations
  <2>6. CASE Unposted
    BY <2>6 DEF Unposted, ChangeUnposted
  <2> QED
    BY <2>1, <2>2, <2>3, <2>4, <2>5, <2>6 DEF UI, HelperSaves, Unposted
<1> QED
  BY <1>1, RemovalFrame

LEMMA RemovalFileOps ==
    ASSUME RemovalInv, FileOps PROVE WorkerInStep' /\ RemovalsMatchEntries'
<1> USE DEF RemovalInv, notFileOps, scanVars, workVars, requestGhosts
<1>1. TypeOK /\ pool \in Pool /\ WorkerInStep /\ RemovalsMatchEntries
  BY DEF TypeOK, StoreTypeOK
<1>2. CASE TakeBatch \/ FileOpsExit \/ ReportBatch
  <2>1. WorkerInStep'
    BY <1>1, <1>2 DEF TakeBatch, FileOpsExit, ReportBatch, WorkerInStep, MarkedStates, SavingStates
  <2>2. RemovalsMatchEntries'
    BY <1>1, <1>2 DEF TakeBatch, FileOpsExit, ReportBatch, ghostVars,
                      RemovalsMatchEntries, Owed, Coming
  <2> QED
    BY <2>1, <2>2
<1>3. ASSUME NEW p \in Paths, Operate(p) PROVE WorkerInStep' /\ RemovalsMatchEntries'
  <2>1. WorkerInStep'
    BY <1>1, <1>3 DEF Operate, WorkerInStep, MarkedStates, SavingStates
  <2>2. RemovalsMatchEntries'
    BY <1>1, <1>3 DEF Operate, ghostVars, RemovalsMatchEntries, Owed, Coming
  <2> QED
    BY <2>1, <2>2
<1>4. CASE Record
  <2>1. WorkerInStep'
    BY <1>1, <1>4 DEF Record, WorkerInStep, MarkedStates, SavingStates
  <2>2. op \in Paths /\ op \notin fs
    BY <1>1, <1>4 DEF Record, TypeOK, StoreTypeOK, WorkerInStep
  <2>3. \A p \in gone : Owed(p)' >= Owed(p)
    BY <1>1, <1>4 DEF Record, Owed
  <2>4. wpc \in {"scan", "swap"} \/ inflight # {} => op \in removedDuringScan'
    BY <1>1, <1>4 DEF Record, WorkerInStep, MarkedStates
  <2>5. pool[op] <= 1 => pool[op] + Coming(op) <= Owed(op)'
    BY <1>1, <1>4, <2>2, <2>4 DEF Record, Owed, Coming, Pool
  <2>6. ASSUME NEW p \in gone'
        PROVE  /\ p \notin fs
               /\ pool[p] + Coming(p) <= Owed(p)'
               /\ p \in inflight => p \in removedDuringScan'
               /\ wpc = "scan" /\ mode = "full" /\ staged[p] > 0 => p \in removedDuringScan'
               /\ wpc = "swap" /\ buf[p] > 0 => p \in removedDuringScan'
    <3>1. CASE p \in gone
      <4>1. /\ p \notin fs /\ p \in Paths
            /\ pool[p] + Coming(p) <= Owed(p)
        BY <1>1, <3>1 DEF RemovalsMatchEntries, TypeOK, StoreTypeOK
      <4>2. pool[p] \in Int /\ Coming(p) \in Int /\ Owed(p) \in Int /\ Owed(p)' \in Int
        BY <1>1, <4>1 DEF Pool, Coming, Owed
      <4>3. removedDuringScan \subseteq removedDuringScan'
        BY <1>4 DEF Record
      <4> QED
        BY <1>1, <2>3, <3>1, <4>1, <4>2, <4>3 DEF RemovalsMatchEntries
    <3>2. CASE p \notin gone
      BY <1>4, <2>2, <2>4, <2>5, <2>6, <3>2 DEF Record
    <3> QED
      BY <3>1, <3>2
  <2>7. UNCHANGED <<pool, fs, inflight, wpc, mode, staged, buf>>
    BY <1>4 DEF Record
  <2> QED
    BY <2>1, <2>6, <2>7 DEF RemovalsMatchEntries, Coming
<1>5. CASE Apply
  <2>1. WorkerInStep'
    BY <1>1, <1>5 DEF Apply, WorkerInStep, MarkedStates, SavingStates
  <2>2. op \in Paths
    BY <1>1, <1>5 DEF Apply, TypeOK, StoreTypeOK
  <2>3. ASSUME NEW p \in gone PROVE pool'[p] + Coming(p) <= Owed(p)'
    <3>1. p \in Paths /\ pool[p] + Coming(p) <= Owed(p) /\ (p \in inflight => p \in removedDuringScan)
      BY <1>1 DEF RemovalsMatchEntries, TypeOK, StoreTypeOK
    <3>2. pool[p] \in Nat /\ pool'[p] = IF p # op THEN pool[p] ELSE IF pool[p] > 0 THEN pool[p] - 1 ELSE 0
      BY <1>1, <1>5, <2>2, <3>1 DEF Apply, Removed, Pool
    <3> QED
      BY <1>5, <3>1, <3>2, <2>2 DEF Apply, Owed, Coming
  <2>4. UNCHANGED <<gone, fs, inflight, wpc, mode, staged, buf, removedDuringScan>>
    BY <1>5 DEF Apply
  <2> QED
    BY <1>1, <2>1, <2>3, <2>4 DEF RemovalsMatchEntries, Coming
<1> QED
  BY <1>2, <1>3, <1>4, <1>5 DEF FileOps

LEMMA RemovalWorker ==
    ASSUME RemovalInv, Worker PROVE WorkerInStep' /\ RemovalsMatchEntries'
<1> USE DEF notWorker, fopVars, scanVars, workVars, ghostVars, requestGhosts, MarkedStates, SavingStates
<1>1. /\ TypeOK /\ WorkerInStep /\ RemovalsMatchEntries
      /\ pool \in Pool /\ staged \in Pool /\ buf \in Pool /\ gone \subseteq Paths
  BY DEF RemovalInv, TypeOK, WorkerTypeOK, StoreTypeOK
<1>2. CASE Take \/ WorkerExits \/ SkipCommand \/ BeginCommand
  <2>1. WorkerInStep'
    BY <1>1, <1>2 DEF Take, WorkerExits, SkipCommand, BeginCommand, WorkerInStep
  <2>2. RemovalsMatchEntries'
    BY <1>1, <1>2 DEF Take, WorkerExits, SkipCommand, BeginCommand, WorkerInStep, RemovalsMatchEntries, Owed, Coming
  <2> QED
    BY <2>1, <2>2
<1>3. CASE BeginReload \/ ReloadReads \/ StopMonitoring
  <2>1. WorkerInStep'
    BY <1>1, <1>3 DEF BeginReload, ReloadReads, StopMonitoring, WorkerInStep
  <2>2. RemovalsMatchEntries'
    BY <1>1, <1>3 DEF BeginReload, ReloadReads, StopMonitoring, WorkerInStep, RemovalsMatchEntries, Owed, Coming
  <2> QED
    BY <2>1, <2>2
<1>4. CASE EndBusy \/ ReportIdle \/ Complete
  <2>1. WorkerInStep'
    BY <1>1, <1>4 DEF EndBusy, ReportIdle, Complete, WorkerInStep
  <2>2. RemovalsMatchEntries'
    BY <1>1, <1>4 DEF EndBusy, ReportIdle, Complete, WorkerInStep, RemovalsMatchEntries, Owed, Coming
  <2> QED
    BY <2>1, <2>2
<1>5. CASE MarkScan
  <2>1. Mode(cmd) \in Modes
    BY ModeType
  <2>2. \A p \in Paths : staged'[p] = 0
    BY <1>5 DEF MarkScan, PoolOf
  <2>3. wpc' = "scan" => mode' \in {"full", "add"}
    BY <1>5, <2>1 DEF MarkScan, Modes
  <2>4. wpc' \in {"load", "scan", "prune", "finish"} /\ staged' = PoolOf({}) /\ scanRunning'
    BY <1>5, <2>1 DEF MarkScan, Modes
  <2>5. removedDuringScan = {} /\ inflight = {} /\ again = {} /\ wpc = "mark"
    BY <1>1, <1>5 DEF MarkScan, WorkerInStep
  <2>6. UNCHANGED <<removedDuringScan, again, inflight, fpc, op, fs, pool, gone, buf>>
    BY <1>5 DEF MarkScan
  <2>7. WorkerInStep'
    BY <1>1, <2>2, <2>3, <2>4, <2>5, <2>6 DEF WorkerInStep
  <2>8. \A p \in gone : Coming(p)' = 0 /\ Coming(p) = 0 /\ Owed(p)' = Owed(p)
    BY <2>5, <2>6 DEF Coming, Owed
  <2>9. RemovalsMatchEntries'
    BY <1>1, <2>2, <2>4, <2>5, <2>6, <2>8 DEF RemovalsMatchEntries
  <2> QED
    BY <2>7, <2>9
<1>6. CASE ReadFreshFile
  <2>1. WorkerInStep'
    BY <1>1, <1>6 DEF ReadFreshFile, WorkerInStep
  <2>2. RemovalsMatchEntries'
    BY <1>1, <1>6 DEF ReadFreshFile, WorkerInStep, RemovalsMatchEntries, Owed, Coming
  <2> QED
    BY <2>1, <2>2
<1>7. CASE RejectFile
  <2>1. wpc = "load" /\ wpc' = "scan" /\ mode' = "full"
    BY <1>7 DEF RejectFile
  <2>2. UNCHANGED <<scanRunning, removedDuringScan, again, inflight, staged, fpc, op, fs, pool,
                    gone, buf>>
    BY <1>7 DEF RejectFile
  <2>3. scanRunning /\ inflight = {} /\ \A p \in Paths : staged[p] = 0
    BY <1>1, <2>1 DEF WorkerInStep, PoolOf
  <2>4. WorkerInStep'
    BY <1>1, <2>1, <2>2, <2>3 DEF WorkerInStep
  <2>5. \A p \in gone : Coming(p)' = 0 /\ Coming(p) = 0 /\ Owed(p)' = Owed(p)
    BY <2>2, <2>3 DEF Coming, Owed
  <2>6. RemovalsMatchEntries'
    BY <1>1, <2>1, <2>2, <2>3, <2>5 DEF RemovalsMatchEntries
  <2> QED
    BY <2>4, <2>6
<1>8. CASE SwapFile
  <2>1. WorkerInStep'
    BY <1>1, <1>8 DEF SwapFile, WorkerInStep
  <2>2. /\ wpc = "swap" /\ wpc' = "finish" /\ inflight = {} /\ pool' = buf
        /\ gone' = {p \in gone : buf[p] <= 1}
    BY <1>1, <1>8 DEF SwapFile, WorkerInStep
  <2>3. UNCHANGED <<removedDuringScan, again, inflight, mode, fpc, op, fs>>
    BY <1>8 DEF SwapFile
  <2>4. ASSUME NEW p \in gone'
        PROVE  p \notin fs /\ pool'[p] + Coming(p)' <= Owed(p)'
    <3>1. p \in gone /\ p \in Paths /\ buf[p] \in Nat /\ buf[p] <= 1
      BY <1>1, <2>2 DEF Pool
    <3>2. buf[p] > 0 => p \in removedDuringScan
      BY <1>1, <2>2, <3>1 DEF RemovalsMatchEntries
    <3>3. p \notin fs
      BY <1>1, <3>1 DEF RemovalsMatchEntries
    <3>4. Coming(p)' = 0
      BY <2>2, <2>3 DEF Coming
    <3> QED
      BY <2>2, <2>3, <3>1, <3>2, <3>3, <3>4 DEF Owed
  <2>5. RemovalsMatchEntries'
    BY <2>2, <2>3, <2>4 DEF RemovalsMatchEntries
  <2> QED
    BY <2>1, <2>5
<1>9. CASE ScanCompletes
  <2>1. WorkerInStep'
    BY <1>1, <1>9 DEF ScanCompletes, WorkerInStep
  <2>2. wpc = "scan" /\ wpc' = "serialize" /\ inflight = {} /\ todo = {}
    BY <1>9 DEF ScanCompletes
  <2>3. UNCHANGED <<removedDuringScan, again, inflight, mode, fpc, op, fs, gone>>
    BY <1>9 DEF ScanCompletes
  <2>4. \A p \in gone : Coming(p)' = 0 /\ Coming(p) = 0 /\ Owed(p)' = Owed(p)
    BY <2>2, <2>3 DEF Coming, Owed
  <2>5. ASSUME NEW p \in gone PROVE pool'[p] <= Owed(p)
    <3>1. p \in Paths /\ staged[p] \in Nat /\ pool[p] \in Nat
      BY <1>1 DEF Pool
    <3>2. CASE mode = "full"
      <4>1. pool' = staged
        BY <1>9, <3>2 DEF ScanCompletes
      <4>2. staged[p] <= 1
        BY <1>1, <2>2, <3>1 DEF WorkerInStep
      <4>3. staged[p] > 0 => p \in removedDuringScan
        BY <1>1, <2>2, <3>2 DEF RemovalsMatchEntries
      <4> QED
        BY <3>1, <4>1, <4>2, <4>3 DEF Owed
    <3>3. CASE mode # "full"
      BY <1>1, <1>9, <2>4, <3>1, <3>3 DEF ScanCompletes, RemovalsMatchEntries
    <3> QED
      BY <3>2, <3>3
  <2>6. \A p \in gone : pool'[p] + 0 <= Owed(p)
    <3>1. pool' \in Pool
      BY <1>1, <1>9 DEF ScanCompletes
    <3> QED
      BY <1>1, <2>5, <3>1 DEF Pool
  <2>7. RemovalsMatchEntries'
    BY <1>1, <2>2, <2>3, <2>4, <2>6 DEF RemovalsMatchEntries
  <2> QED
    BY <2>1, <2>7
<1>10. CASE ScanCancelled
  <2>1. WorkerInStep'
    BY <1>1, <1>10 DEF ScanCancelled, WorkerInStep
  <2>2. RemovalsMatchEntries'
    BY <1>1, <1>10 DEF ScanCancelled, WorkerInStep, RemovalsMatchEntries, Owed, Coming
  <2> QED
    BY <2>1, <2>2
<1>11. CASE PruneRoots
  <2>1. WorkerInStep'
    BY <1>1, <1>11 DEF PruneRoots, WorkerInStep
  <2>2. UNCHANGED <<removedDuringScan, again, inflight, mode, fpc, op, fs, gone>>
    BY <1>11 DEF PruneRoots
  <2>3. wpc = "prune" /\ wpc' = "serialize" /\ inflight = {}
    BY <1>1, <1>11 DEF PruneRoots, WorkerInStep
  <2>4. \A p \in gone : Coming(p)' = 0 /\ Coming(p) = 0 /\ Owed(p)' = Owed(p) /\ Owed(p) \in Nat
    BY <2>2, <2>3 DEF Coming, Owed
  <2>5. \A p \in gone : pool[p] \in Nat /\ pool'[p] \in {0, pool[p]}
    BY <1>1, <1>11 DEF PruneRoots, RemovedUnder, Pool
  <2>6. RemovalsMatchEntries'
    BY <1>1, <2>2, <2>3, <2>4, <2>5 DEF RemovalsMatchEntries
  <2> QED
    BY <2>1, <2>6
<1>12. CASE Serialize \/ WriteFile
  <2>1. WorkerInStep'
    BY <1>1, <1>12 DEF Serialize, WriteFile, WorkerInStep
  <2>2. RemovalsMatchEntries'
    BY <1>1, <1>12 DEF Serialize, WriteFile, WorkerInStep, RemovalsMatchEntries, Owed, Coming
  <2> QED
    BY <2>1, <2>2
<1>13. CASE FinishScan
  <2>1. WorkerInStep'
    BY <1>1, <1>13 DEF FinishScan, WorkerInStep
  <2>2. RemovalsMatchEntries'
    BY <1>1, <1>13 DEF FinishScan, WorkerInStep, RemovalsMatchEntries, Owed, Coming
  <2> QED
    BY <2>1, <2>2
<1>14. CASE ReloadSwaps
  <2>1. WorkerInStep'
    BY <1>1, <1>14 DEF ReloadSwaps, WorkerInStep
  <2>2. RemovalsMatchEntries'
    BY <1>1, <1>14 DEF ReloadSwaps, WorkerInStep, RemovalsMatchEntries, Owed, Coming
  <2> QED
    BY <2>1, <2>2
<1>15. ASSUME NEW p \in Paths, Look(p) PROVE WorkerInStep' /\ RemovalsMatchEntries'
  <2>1. WorkerInStep'
    BY <1>1, <1>15 DEF Look, WorkerInStep, Added, Removed, Pool
  <2>2. RemovalsMatchEntries'
    BY <1>1, <1>15 DEF Look, WorkerInStep, RemovalsMatchEntries, Owed, Coming, Added, Removed, Pool
  <2> QED
    BY <2>1, <2>2
<1>16. ASSUME NEW p \in Paths, Emit(p) PROVE WorkerInStep' /\ RemovalsMatchEntries'
  <2>1. WorkerInStep'
    BY <1>1, <1>16 DEF Emit, WorkerInStep, Added, Removed, Pool
  <2>2. RemovalsMatchEntries'
    BY <1>1, <1>16 DEF Emit, WorkerInStep, RemovalsMatchEntries, Owed, Coming, Added, Removed, Pool
  <2> QED
    BY <2>1, <2>2
<1>17. ASSUME NEW p \in Paths, Reapply(p) PROVE WorkerInStep' /\ RemovalsMatchEntries'
  <2>1. WorkerInStep'
    BY <1>1, <1>17 DEF Reapply, WorkerInStep, Added, Removed, Pool
  <2>2. RemovalsMatchEntries'
    BY <1>1, <1>17 DEF Reapply, WorkerInStep, RemovalsMatchEntries, Owed, Coming, Added, Removed, Pool
  <2> QED
    BY <2>1, <2>2
<1> QED
  BY <1>2, <1>3, <1>4, <1>5, <1>6, <1>7, <1>8, <1>9, <1>10, <1>11, <1>12, <1>13, <1>14, <1>15, <1>16, <1>17 DEF Worker

LEMMA RemovalStep == RemovalInv /\ [Next]_vars => RemovalInv'
<1>1. ASSUME RemovalInv, UNCHANGED vars PROVE WorkerInStep' /\ RemovalsMatchEntries'
  BY <1>1, RemovalFrame DEF vars, scanVars, workVars, fopVars, ghostVars
<1> QED
  BY <1>1, TypeStep, RemovalUI, RemovalFileOps, RemovalWorker DEF RemovalInv, Next, Rest

\* No path removed by a file operation is live once the scans it raced with
\* are over (RequestFileOperations with FinishScan).
THEOREM RemovedPathsStayRemoved == Spec => []RemovedStaysRemoved
<1>1. RemovalInv => RemovedStaysRemoved
  <2> SUFFICES ASSUME RemovalInv, ~scanRunning, again = {}, NEW p \in gone
               PROVE  pool[p] = 0 \/ (fpc = "apply" /\ op = p)
    BY DEF RemovedStaysRemoved
  <2>1. p \in Paths /\ pool[p] \in Nat
    BY DEF RemovalInv, TypeOK, StoreTypeOK, Pool
  <2>2. removedDuringScan = {}
    BY DEF RemovalInv, WorkerInStep
  <2>3. pool[p] + Coming(p) <= Owed(p)
    BY DEF RemovalInv, RemovalsMatchEntries
  <2> QED
    BY <2>1, <2>2, <2>3 DEF Owed, Coming
<1> QED
  BY RemovalInit, RemovalStep, <1>1, PTL DEF Spec

-----------------------------------------------------------------------------
(* The queue of requests, the scans and the monitors.                      *)

Up == ui = "up"

ScanKinds  == {"index", "settings"}
RestStates == {"idle", "reportIdle"}
BusyStates == {"mark", "load", "swap", "scan", "prune", "serialize", "write", "finish", "reapply",
               "complete", "endBusy"}

\* Where the worker is with which command, and which identifiers there are.
QueueInv ==
    /\ shuttingDown = (ui # "up")
    /\ wpc = "exited" => shuttingDown
    /\ Len(posting) <= 1
    /\ cancelled \cup scanCancels \subseteq 0..used["request"]
    /\ wpc \in BusyStates => IsScan
    /\ wpc \in {"reload", "reloadSwap"} => cmd.kind = "reload"
    /\ wpc \in {"idle", "exited", "reportIdle"} => ~IsScan

\* Every scan command has its token set, except the newest.
Outstanding == {commands[i] : i \in DOMAIN commands} \cup
               {posting[i] : i \in DOMAIN posting} \cup
               (IF wpc \in {"idle", "exited"} THEN {} ELSE {cmd})

OthersCancelled ==
    \A c \in Outstanding : c.kind \in ScanKinds /\ ~IsCancelled(c) => scanCancels = {c.id}

Runnable(c) == c.kind \in ScanKinds /\ ~IsCancelled(c)

\* Nothing waits behind a scan command that is to be carried out, and there is
\* none once the helper has taken over or the window is closing.
NewestLast ==
    /\ ~Up \/ elevated => scanCancels = {}
    /\ \A i \in DOMAIN commands : Runnable(commands[i]) => posting = <<>> /\ i = Len(commands)
    /\ Runnable(cmd) => posting = <<>> /\ commands = <<>>

\* A scan that stops half-way has been cancelled; one that does not has done
\* all there is to do.
RunInv ==
    /\ wpc \in BusyStates \ {"mark", "endBusy"} /\ ~completed => IsCancelled(cmd)
    /\ wpc = "endBusy" /\ ~IsCancelled(cmd) => ~needsFullRebuild /\ monitored = cmd.roots

BusyInv == BusyMatchesWork /\ (~shuttingDown /\ busyReported => (wpc = "reportIdle" \/ pendingBusy > 0))

One(b) == IF b THEN 1 ELSE 0

\* The roots that a refused Save has kept out of the diffs are left aside, and
\* so is the whole index once a load has put one of other roots in place.
Right(pl, roots) ==
    \A p \in fs : RootOf[p] \notin missed => pl[p] = One(RootOf[p] \in roots)

Current(roots) == staleLoad \/ Right(pool, roots)

Agree(these, those) == \A r \in Roots \ missed : r \in these <=> r \in those

Trusted(c) == c.kind = "settings" => needsFullRebuild \/ Current(c.old)

\* What a scan has found and has still to find makes up its roots.
Counted(pl, p) == pl[p] + One(p \in todo \cup inflight) = One(RootOf[p] \in cmd.roots)

Found(pl) == \A p \in fs : Counted(pl, p)

FoundBeside(pl) == \A p \in fs : RootOf[p] \notin missed => Counted(pl, p)

DataInv ==
    /\ \A p \in again \cup removedDuringScan : p \notin fs
    /\ wpc = "mark" => Trusted(cmd)
    /\ wpc = "scan" /\ mode = "full" => Found(staged)
    /\ wpc = "scan" /\ mode = "add" => staleLoad \/ FoundBeside(pool)
    /\ wpc = "prune" => Current(cmd.old) /\ cmd.roots \subseteq cmd.old
    /\ wpc \in {"serialize", "write", "finish", "reapply", "complete"} /\ completed => Current(cmd.roots)
    /\ wpc = "endBusy" => needsFullRebuild \/ Current(cmd.roots)

\* A command that is to be carried out, and what has to be so before it is: a
\* Settings change follows the command it was diffed against.
Newest(c) == c.kind \in ScanKinds /\ ~IsCancelled(c) /\ c.roots = asked

Before(c, next) == c.kind \in ScanKinds /\ Agree(c.roots, next.old) /\ IsCancelled(c)

Follows(c) ==
    \/ wpc \in RestStates /\ Trusted(c)
    \/ wpc \in BusyStates \cup {"start"} /\ Before(cmd, c)

Ready(c, ahead) ==
    \/ c.kind = "index"
    \/ ahead > 0 /\ Before(commands[ahead], c)
    \/ ahead = 0 /\ Follows(c)

IsPosted  == posting # <<>> /\ Newest(posting[1]) /\ Ready(posting[1], Len(commands))
IsQueued  == /\ posting = <<>> /\ commands # <<>> /\ Newest(commands[Len(commands)])
             /\ Ready(commands[Len(commands)], Len(commands) - 1)
IsRunning == /\ posting = <<>> /\ commands = <<>> /\ Newest(cmd)
             /\ (wpc = "start" /\ Trusted(cmd)) \/ wpc \in BusyStates
IsDone    == /\ posting = <<>> /\ commands = <<>> /\ wpc \in RestStates
             /\ used["request"] > 0 => monitored = asked /\ Current(asked)

RequestInv == Up /\ ~elevated => IsPosted \/ IsQueued \/ IsRunning \/ IsDone

\* Once the helper has taken over, monitoring has been stopped or will be.
OnlyReloads(s) == \A i \in 1..Len(s) : s[i].kind = "reload"

StopQueued == \E k \in 1..Len(commands) :
                  /\ commands[k].kind = "stop"
                  /\ \A j \in 1..Len(commands) : j > k => commands[j].kind = "reload"

HelperInv == Up /\ elevated =>
    \/ posting # <<>> /\ posting[1].kind = "stop"
    \/ StopQueued /\ OnlyReloads(posting)
    \/ wpc = "start" /\ cmd.kind = "stop" /\ OnlyReloads(commands) /\ OnlyReloads(posting)
    \/ /\ monitored = {} /\ OnlyReloads(commands) /\ OnlyReloads(posting)
       /\ wpc \in RestStates \cup {"reload", "reloadSwap"} \/ (wpc = "start" /\ cmd.kind = "reload")

\* A change nobody has been told of is that of a batch under way, or of a
\* command that is not done.
ViewInv ==
    /\ fpc = "wait" => ~succeeded
    /\ Up /\ ~elevated /\ posting = <<>> /\ commands = <<>> /\ wpc \in RestStates \cup {"endBusy"} /\ unseen
           => succeeded

-----------------------------------------------------------------------------
(* Sequences of commands.                                                  *)

ScanAt(s) == {i \in DOMAIN s : s[i].kind \in ScanKinds}

LEMMA ScansFinite ==
    ASSUME NEW s \in Seq(Command)
    PROVE  IsFiniteSet(ScanAt(s)) /\ ScansIn(s) = Cardinality(ScanAt(s)) /\ ScansIn(s) \in Nat
<1>1. ScanAt(s) \subseteq 1..Len(s) /\ Len(s) \in Int
  BY LenProperties DEF ScanAt
<1>2. IsFiniteSet(ScanAt(s))
  BY <1>1, FS_Interval, FS_Subset
<1>3. ScansIn(s) = Cardinality(ScanAt(s))
  BY DEF ScansIn, ScanAt, ScanKinds
<1> QED
  BY <1>2, <1>3, FS_CardinalityType

LEMMA ScansInNone == ScansIn(<<>>) = 0
<1>1. ScanAt(<<>>) = {} /\ <<>> \in Seq(Command)
  BY DEF ScanAt
<1> QED
  BY <1>1, ScansFinite, FS_EmptySet

LEMMA ScansAppend ==
    ASSUME NEW s \in Seq(Command), NEW c \in Command
    PROVE  ScansIn(Append(s, c)) = ScansIn(s) + One(c.kind \in ScanKinds)
<1> DEFINE t == Append(s, c)
           n == Len(s) + 1
<1>1. /\ t \in Seq(Command) /\ Len(s) \in Nat /\ DOMAIN s = 1..Len(s) /\ DOMAIN t = 1..n
      /\ t[n] = c /\ \A i \in 1..Len(s) : t[i] = s[i]
  BY AppendProperties, LenProperties
<1> HIDE DEF t
<1>2. \A i \in 1..n : i \in 1..Len(s) \/ i = n
  BY <1>1
<1>3. n \notin DOMAIN s /\ 1..Len(s) \subseteq 1..n /\ n \in 1..n
  BY <1>1
<1>4. ScanAt(t) = IF c.kind \in ScanKinds THEN ScanAt(s) \cup {n} ELSE ScanAt(s)
  BY <1>1, <1>2, <1>3 DEF ScanAt
<1>5. n \notin ScanAt(s)
  BY <1>3 DEF ScanAt
<1>6. /\ IsFiniteSet(ScanAt(s)) /\ ScansIn(s) = Cardinality(ScanAt(s)) /\ ScansIn(s) \in Nat
      /\ ScansIn(t) = Cardinality(ScanAt(t))
  BY <1>1, ScansFinite
<1>7. Cardinality(ScanAt(s) \cup {n}) = Cardinality(ScanAt(s)) + 1
  BY <1>5, <1>6, FS_AddElement
<1> QED
  BY <1>4, <1>6, <1>7 DEF One, t

LEMMA ScansTail ==
    ASSUME NEW s \in Seq(Command), s # <<>>
    PROVE  ScansIn(s) = ScansIn(Tail(s)) + One(Head(s).kind \in ScanKinds)
<1> DEFINE t == Tail(s)
           A == ScanAt(s) \ {1}
           f == [i \in ScanAt(t) |-> i + 1]
<1>1. /\ t \in Seq(Command) /\ Len(s) \in Nat \ {0} /\ Len(t) = Len(s) - 1
      /\ DOMAIN s = 1..Len(s) /\ DOMAIN t = 1..Len(t)
      /\ Head(s) = s[1] /\ \A i \in 1..Len(t) : t[i] = s[i + 1]
  BY HeadTailProperties, LenProperties, EmptySeq
<1> HIDE DEF t
<1>2. /\ IsFiniteSet(ScanAt(s)) /\ ScansIn(s) = Cardinality(ScanAt(s)) /\ ScansIn(s) \in Nat
      /\ IsFiniteSet(ScanAt(t)) /\ ScansIn(t) = Cardinality(ScanAt(t)) /\ ScansIn(t) \in Nat
  BY <1>1, ScansFinite
<1>3. \A i \in ScanAt(t) : i \in Nat /\ i + 1 \in A
  BY <1>1 DEF ScanAt
<1>4. \A j \in A : j \in Nat /\ j - 1 \in ScanAt(t) /\ (j - 1) + 1 = j
  <2> SUFFICES ASSUME NEW j \in A PROVE j \in Nat /\ j - 1 \in ScanAt(t) /\ (j - 1) + 1 = j
    OBVIOUS
  <2>1. j \in 2..Len(s) /\ s[j].kind \in ScanKinds
    BY <1>1 DEF ScanAt
  <2>2. j - 1 \in 1..Len(t) /\ (j - 1) + 1 = j /\ j \in Nat
    BY <1>1, <2>1
  <2> QED
    BY <1>1, <2>1, <2>2 DEF ScanAt
<1> HIDE DEF A
<1>5. ExistsBijection(ScanAt(t), A)
  <2>1. f \in [ScanAt(t) -> A]
    BY <1>3
  <2>2. \A i, j \in ScanAt(t) : f[i] = f[j] => i = j
    BY <1>3
  <2>3. \A j \in A : \E i \in ScanAt(t) : f[i] = j
    BY <1>4
  <2> HIDE DEF f
  <2>4. f \in Bijection(ScanAt(t), A)
    BY <2>1, <2>2, <2>3 DEF Bijection, Injection, Surjection, IsInjective
  <2> QED
    BY <2>4 DEF ExistsBijection
<1>6. Cardinality(A) = Cardinality(ScanAt(t))
  BY <1>2, <1>5, FS_Bijection
<1>7. Cardinality(A) = IF 1 \in ScanAt(s) THEN Cardinality(ScanAt(s)) - 1 ELSE Cardinality(ScanAt(s))
  BY <1>2, FS_RemoveElement DEF A
<1>8. 1 \in ScanAt(s) <=> Head(s).kind \in ScanKinds
  BY <1>1 DEF ScanAt
<1> QED
  BY <1>2, <1>6, <1>7, <1>8 DEF One, t

\* The ends of a list that grows, and of one that shrinks.
LEMMA AppendEnds ==
    ASSUME NEW s \in Seq(Command), NEW c \in Command
    PROVE  /\ Len(s) \in Nat /\ Len(Append(s, c)) = Len(s) + 1 /\ Append(s, c) # <<>>
           /\ Append(s, c)[Len(s) + 1] = c /\ \A i \in 1..Len(s) : Append(s, c)[i] = s[i]
           /\ DOMAIN s = 1..Len(s) /\ DOMAIN Append(s, c) = 1..(Len(s) + 1)
  BY AppendProperties, LenProperties

LEMMA TailEnds ==
    ASSUME NEW s \in Seq(Command), s # <<>>
    PROVE  /\ Len(s) \in Nat \ {0} /\ Len(Tail(s)) = Len(s) - 1 /\ Head(s) = s[1] /\ Head(s) \in Command
           /\ \A i \in 1..(Len(s) - 1) : Tail(s)[i] = s[i + 1]
           /\ Len(s) = 1 <=> Tail(s) = <<>>
           /\ DOMAIN s = 1..Len(s) /\ DOMAIN Tail(s) = 1..(Len(s) - 1)
<1>1. /\ Tail(s) \in Seq(Command) /\ Len(s) \in Nat \ {0} /\ Len(Tail(s)) = Len(s) - 1
      /\ Head(s) = s[1] /\ Head(s) \in Command
      /\ \A i \in 1..Len(Tail(s)) : Tail(s)[i] = s[i + 1]
  BY HeadTailProperties, EmptySeq
<1> QED
  BY <1>1, LenProperties, EmptySeq

\* A request is posted one at a time.
LEMMA PostedOne ==
    ASSUME NEW c
    PROVE  /\ <<c>> # <<>> /\ Len(<<c>>) = 1 /\ <<c>>[1] = c /\ Head(<<c>>) = c /\ DOMAIN <<c>> = {1}
           /\ Len(<<>>) = 0 /\ DOMAIN <<>> = {}
  OBVIOUS

-----------------------------------------------------------------------------
(* The steps of the worker, as its queue sees them.                        *)

ScanStep ==
    /\ wpc \in BusyStates \ {"complete", "endBusy"} /\ wpc' \in BusyStates \ {"mark", "endBusy"}
    /\ wpc = "mark" => completed'
    /\ completed /\ ~completed' => IsCancelled(cmd)
    /\ UNCHANGED <<cmd, commands, reloadQueued, pendingBusy, flagVars>>

ReloadStep ==
    /\ wpc \in {"reload", "reloadSwap"} /\ wpc' \in {"reloadSwap", "idle"}
    /\ UNCHANGED <<cmd, commands, reloadQueued, pendingBusy, flagVars>>

LEMMA WorkerSteps ==
    ASSUME Worker
    PROVE  /\ UNCHANGED notWorker
           /\ \/ Take \/ WorkerExits \/ SkipCommand \/ BeginCommand \/ Complete \/ EndBusy \/ ReportIdle
              \/ BeginReload \/ StopMonitoring \/ ScanStep \/ ReloadStep
<1> USE DEF notQueue, workVars, flagVars, BusyStates
<1>1. UNCHANGED notWorker
  BY DEF Worker, Take, WorkerExits, SkipCommand, BeginCommand, MarkScan, ReadFreshFile, RejectFile,
         SwapFile, ScanCompletes, ScanCancelled, PruneRoots, Serialize, WriteFile, FinishScan, Complete,
         EndBusy, ReportIdle, BeginReload, ReloadReads, ReloadSwaps, StopMonitoring, Look, Emit, Reapply
<1>2. CASE MarkScan
  BY <1>1, <1>2 DEF MarkScan, ScanStep
<1>3. CASE ReadFreshFile \/ RejectFile \/ SwapFile \/ ScanCompletes \/ ScanCancelled \/ PruneRoots \/ Serialize
  BY <1>1, <1>3 DEF ReadFreshFile, RejectFile, SwapFile, ScanCompletes, ScanCancelled, PruneRoots,
                    Serialize, ScanStep
<1>4. CASE WriteFile \/ FinishScan
  BY <1>1, <1>4 DEF WriteFile, FinishScan, ScanStep
<1>5. ASSUME NEW p \in Paths, Look(p) \/ Emit(p) \/ Reapply(p) PROVE ScanStep
  <2>1. wpc' \in {"scan", "reapply", "serialize", "complete"} /\ wpc \in {"scan", "reapply"}
    BY <1>5 DEF Look, Emit, Reapply
  <2> QED
    BY <1>5, <2>1 DEF Look, Emit, Reapply, ScanStep
<1>6. CASE ReloadReads \/ ReloadSwaps
  BY <1>1, <1>6 DEF ReloadReads, ReloadSwaps, ReloadStep
<1> QED
  BY <1>1, <1>2, <1>3, <1>4, <1>5, <1>6 DEF Worker

LEMMA FileOpsSteps ==
    ASSUME FileOps PROVE UNCHANGED notFileOps
  BY DEF FileOps, TakeBatch, FileOpsExit, Operate, Record, Apply, ReportBatch

\* The requests that supersede the earlier ones. A Settings change names every
\* root in its diff, or has it among those missed.
Request(c) ==
    /\ CanPost /\ Supersede(c) /\ used'["request"] = used["request"] + 1
    /\ c \in Command /\ c.kind \in ScanKinds /\ c.id = used["request"] + 1
    /\ ~elevated' /\ missed \subseteq missed' /\ asked' = c.roots
    /\ c.kind = "settings" =>
           /\ ~elevated /\ used["request"] > 0
           /\ \A r \in Roots \ missed' : r \in asked <=> r \in c.old

LEMMA Requests ==
    ASSUME TypeOK
    PROVE  /\ RequestIndexing => \E c : Request(c)
           /\ \A new \in SUBSET Roots : RequestSettingsChange(new) => \E c : Request(c)
           /\ \A late \in BOOLEAN : HelperFinished(late) => \E c : Request(c)
<1> USE DEF Request, ScanKinds
<1>0. /\ settings \in SUBSET Roots /\ (used["request"] > 0) \in BOOLEAN
      /\ used \in [Uses -> Nat] /\ "request" \in Uses
  BY DEF TypeOK, QueueTypeOK, Uses
<1>1. ASSUME RequestIndexing PROVE \E c : Request(c)
  <2> DEFINE c == NewCommand("index", used["request"] > 0, {}, settings)
  <2>1. c \in Command /\ c.kind = "index" /\ c.id = used["request"] + 1
    BY <1>0, NewCommandType DEF Kinds, NewCommand
  <2>2. CanPost /\ Supersede(c) /\ Spend("request") /\ ~elevated /\ UNCHANGED <<elevated, missed>>
    BY <1>1 DEF RequestIndexing
  <2>3. asked' = c.roots /\ used'["request"] = used["request"] + 1
    BY <1>0, <2>2 DEF Supersede, Spend
  <2> HIDE DEF c
  <2> QED
    BY <2>1, <2>2, <2>3
<1>2. ASSUME NEW new \in SUBSET Roots, RequestSettingsChange(new) PROVE \E c : Request(c)
  <2> DEFINE c == NewCommand("settings", FALSE, settings, new)
  <2>1. c \in Command /\ c.kind = "settings" /\ c.id = used["request"] + 1 /\ c.old = settings
    BY <1>0, NewCommandType DEF Kinds, NewCommand
  <2>2. /\ CanPost /\ Supersede(c) /\ Spend("request") /\ ~elevated /\ UNCHANGED elevated
        /\ used["request"] > 0 /\ missed' = missed \cup Differ(settings, asked)
    BY <1>2 DEF RequestSettingsChange
  <2>3. asked' = c.roots /\ used'["request"] = used["request"] + 1
    BY <1>0, <2>2 DEF Supersede, Spend
  <2>4. \A r \in Roots \ missed' : r \in asked <=> r \in c.old
    BY <2>1, <2>2 DEF Differ
  <2> HIDE DEF c
  <2> QED
    BY <2>1, <2>2, <2>3, <2>4
<1>3. ASSUME NEW late \in BOOLEAN, HelperFinished(late) PROVE \E c : Request(c)
  <2> DEFINE c == NewCommand("index", late, {}, settings)
  <2>1. c \in Command /\ c.kind = "index" /\ c.id = used["request"] + 1
    BY <1>0, NewCommandType DEF Kinds, NewCommand
  <2>2. /\ CanPost /\ Supersede(c) /\ elevated' = FALSE /\ UNCHANGED missed
        /\ used' = [used EXCEPT !["request"] = @ + 1, !["save"] = 0, !["reload"] = 0]
    BY <1>3 DEF HelperFinished
  <2>3. asked' = c.roots /\ used'["request"] = used["request"] + 1
    BY <1>0, <2>2 DEF Supersede
  <2> HIDE DEF c
  <2> QED
    BY <2>1, <2>2, <2>3
<1> QED
  BY <1>1, <1>2, <1>3

\* What the UI thread does, as the queue sees it.
LEMMA UISteps ==
    ASSUME TypeOK, UI
    PROVE  \/ \E c : Request(c)
           \/ Elevate \/ RequestReload \/ Enqueue \/ Shutdown \/ JoinWorker
           \/ /\ \/ JoinFileOps \/ HelperSaves \/ Unposted
                 \/ \E S \in SUBSET Paths \ {{}} : RequestFileOperations(S)
              /\ UNCHANGED <<elevated, queueVars, pendingBusy, scanVars, wpc, workVars, flagVars>>
<1> USE DEF uiVars, notUI, HelperSaves, Unposted
<1>1. ASSUME NEW S \in SUBSET Paths \ {{}}, RequestFileOperations(S)
      PROVE  UNCHANGED <<elevated, queueVars, pendingBusy, scanVars, wpc, workVars, flagVars>>
  BY <1>1 DEF RequestFileOperations
<1>2. ASSUME NEW roots \in SUBSET Roots, JoinFileOps \/ HelperSave(roots) \/ ChangeUnposted(roots)
      PROVE  UNCHANGED <<elevated, queueVars, pendingBusy, scanVars, wpc, workVars, flagVars>>
  BY <1>2 DEF JoinFileOps, HelperSave, ChangeUnposted
<1> QED
  BY <1>1, <1>2, Requests DEF UI, JoinFileOps

-----------------------------------------------------------------------------
(* Where the worker is with which command.                                 *)

LEMMA QueueInit == Init => QueueInv
<1> SUFFICES ASSUME Init PROVE QueueInv
  OBVIOUS
<1>1. Len(posting) <= 1
  BY PostedOne DEF Init
<1>2. cancelled \cup scanCancels \subseteq 0..used["request"]
  BY DEF Init
<1>3. ~IsScan /\ wpc = "idle" /\ ui = "up" /\ shuttingDown = FALSE
  BY DEF Init, IsScan, Plain
<1> QED
  BY <1>1, <1>2, <1>3 DEF QueueInv, BusyStates

LEMMA QueueStep == TypeOK /\ QueueInv /\ [Next]_vars => QueueInv'
<1> SUFFICES ASSUME TypeOK, QueueInv, [Next]_vars PROVE QueueInv'
  OBVIOUS
<1> USE DEF uiVars, queueVars, workVars, flagVars, IsScan
<1>0. QueueTypeOK /\ used["request"] \in Nat
  BY DEF TypeOK, QueueTypeOK, Uses
<1>1. ASSUME UNCHANGED <<ui, shuttingDown, posting, cancelled, scanCancels, used>>, Worker \/ UNCHANGED <<wpc, cmd>>
      PROVE  QueueInv'
  <2>1. CASE UNCHANGED <<wpc, cmd>>
    BY <1>1, <2>1 DEF QueueInv
  <2>2. CASE Worker
    <3>1. CASE Take
      BY <1>1, <3>1 DEF Take, QueueInv, BusyStates
    <3>2. CASE WorkerExits \/ SkipCommand \/ BeginCommand \/ Complete \/ ReportIdle \/ BeginReload \/ StopMonitoring
      BY <1>1, <3>2 DEF WorkerExits, SkipCommand, BeginCommand, Complete, ReportIdle, BeginReload,
                        StopMonitoring, QueueInv, BusyStates
    <3>3. CASE EndBusy
      BY <1>1, <3>3 DEF EndBusy, QueueInv, BusyStates, Plain
    <3>4. CASE ScanStep \/ ReloadStep
      BY <1>1, <3>4 DEF ScanStep, ReloadStep, QueueInv, BusyStates
    <3> QED
      BY <2>2, <3>1, <3>2, <3>3, <3>4, WorkerSteps
  <2> QED
    BY <1>1, <2>1, <2>2
<1>2. CASE Worker
  BY <1>1, <1>2, WorkerSteps DEF notWorker
<1>3. CASE FileOps
  BY <1>1, <1>3, FileOpsSteps DEF notFileOps
<1>4. CASE UNCHANGED vars
  BY <1>1, <1>4 DEF vars
<1>5. CASE UI
  <2>1. ASSUME NEW c, Request(c) PROVE QueueInv'
    <3>1. used'["request"] = used["request"] + 1
      BY <2>1 DEF Request
    <3>2. /\ cancelled' = cancelled \cup scanCancels /\ scanCancels' = {used["request"] + 1}
          /\ posting' = <<c>> /\ UNCHANGED <<ui, shuttingDown, wpc, cmd>>
      BY <2>1 DEF Request, Supersede, notUI
    <3>3. cancelled' \cup scanCancels' \subseteq 0..used'["request"]
      BY <1>0, <3>1, <3>2 DEF QueueInv
    <3> QED
      BY <3>2, <3>3, PostedOne DEF QueueInv
  <2>2. CASE Elevate
    <3>1. used'["request"] = used["request"]
      BY <1>0, <2>2 DEF Elevate, Spend, QueueTypeOK, Uses
    <3> QED
      BY <2>2, <3>1, PostedOne DEF Elevate, QueueInv, notUI
  <2>3. CASE RequestReload
    <3>1. used'["request"] = used["request"]
      BY <1>0, <2>3 DEF RequestReload, Spend, QueueTypeOK, Uses
    <3> QED
      BY <2>3, <3>1, PostedOne DEF RequestReload, QueueInv, notUI
  <2>4. CASE Enqueue \/ JoinWorker
    BY <2>4, PostedOne DEF Enqueue, JoinWorker, QueueInv, notUI
  <2>5. CASE Shutdown
    <3>1. used'["request"] = used["request"]
      BY <1>0, <2>5 DEF Shutdown, Spend, QueueTypeOK, Uses
    <3> QED
      BY <2>5, <3>1 DEF Shutdown, QueueInv, notUI
  <2>6. CASE HelperSaves \/ Unposted \/ \E S \in SUBSET Paths \ {{}} : RequestFileOperations(S)
    <3> USE DEF HelperSaves, HelperSave, Unposted, ChangeUnposted, RequestFileOperations
    <3>1. used'["request"] = used["request"]
      BY <1>0, <2>6 DEF Spend, QueueTypeOK, Uses
    <3> QED
      BY <2>6, <3>1 DEF QueueInv, notUI
  <2>7. CASE JoinFileOps
    BY <2>7 DEF JoinFileOps, QueueInv, notUI
  <2> QED
    BY <1>5, <2>1, <2>2, <2>3, <2>4, <2>5, <2>6, <2>7, UISteps
<1> QED
  BY <1>2, <1>3, <1>4, <1>5 DEF Next, Rest

-----------------------------------------------------------------------------
(* A queued reload is still to read the file.                              *)

ReloadPending ==
    \/ \E i \in DOMAIN commands : commands[i].kind = "reload"
    \/ \E i \in DOMAIN posting : posting[i].kind = "reload"
    \/ wpc = "start" /\ cmd.kind = "reload"

LEMMA CoalescedInit == Init => CoalescedReloadIsPending
BY DEF Init, CoalescedReloadIsPending

LEMMA CoalescedStep ==
    TypeOK /\ QueueInv /\ CoalescedReloadIsPending /\ [Next]_vars => CoalescedReloadIsPending'
<1> SUFFICES ASSUME TypeOK, QueueInv, CoalescedReloadIsPending, [Next]_vars, reloadQueued', ~shuttingDown'
             PROVE  ReloadPending'
  BY DEF CoalescedReloadIsPending, ReloadPending
<1> USE DEF uiVars, queueVars, workVars, flagVars
<1>0. commands \in Seq(Command) /\ posting \in Seq(Command)
  BY DEF TypeOK, QueueTypeOK
<1>1. reloadQueued /\ ~shuttingDown => ReloadPending
  BY DEF CoalescedReloadIsPending, ReloadPending
<1>2. ASSUME UNCHANGED <<reloadQueued, shuttingDown, commands, posting, wpc, cmd>> PROVE ReloadPending'
  BY <1>1, <1>2 DEF ReloadPending
<1>3. CASE Worker
  <2>1. UNCHANGED <<posting, shuttingDown>>
    BY <1>3, WorkerSteps DEF notWorker
  <2>2. CASE Take
    <3>1. ReloadPending
      BY <1>1, <2>1, <2>2 DEF Take
    <3>2. CASE \E i \in DOMAIN commands : commands[i].kind = "reload"
      <4>1. PICK i \in DOMAIN commands : commands[i].kind = "reload"
        BY <3>2
      <4>2. i \in 1..Len(commands) /\ Len(commands) \in Nat
        BY <1>0, LenProperties
      <4>3. CASE i = 1
        BY <1>0, <2>2, <4>1, <4>3, TailEnds DEF Take, ReloadPending
      <4>4. CASE i # 1
        <5>1. i - 1 \in 1..(Len(commands) - 1) /\ (i - 1) + 1 = i
          BY <4>2, <4>4
        <5>2. commands'[i - 1] = commands[i] /\ i - 1 \in DOMAIN commands'
          BY <1>0, <2>2, <5>1, TailEnds DEF Take
        <5> QED
          BY <4>1, <5>2 DEF ReloadPending
      <4> QED
        BY <4>3, <4>4
    <3>3. CASE \E i \in DOMAIN posting : posting[i].kind = "reload"
      BY <2>1, <3>3 DEF ReloadPending
    <3> QED
      BY <2>2, <3>1, <3>2, <3>3 DEF Take, ReloadPending
  <2>3. CASE WorkerExits
    BY <2>1, <2>3 DEF WorkerExits
  <2>4. CASE BeginReload
    BY <2>4 DEF BeginReload
  <2>5. ASSUME SkipCommand \/ BeginCommand \/ Complete \/ EndBusy \/ ReportIdle \/ StopMonitoring
               \/ ScanStep \/ ReloadStep
        PROVE  UNCHANGED <<reloadQueued, commands>> /\ ~(wpc = "start" /\ cmd.kind = "reload")
    BY <2>5 DEF SkipCommand, BeginCommand, Complete, EndBusy, ReportIdle, StopMonitoring,
                ScanStep, ReloadStep, notQueue, IsScan, BusyStates
  <2> QED
    BY <1>1, <1>3, <2>1, <2>2, <2>3, <2>4, <2>5, WorkerSteps DEF ReloadPending
<1>4. CASE FileOps
  BY <1>2, <1>4, FileOpsSteps DEF notFileOps
<1>5. CASE UNCHANGED vars
  BY <1>2, <1>5 DEF vars
<1>6. CASE UI
  <2>1. ASSUME CanPost, UNCHANGED <<reloadQueued, shuttingDown, commands, wpc, cmd>> PROVE ReloadPending'
    BY <1>1, <2>1, PostedOne DEF CanPost, ReloadPending
  <2>2. CASE \E c : Request(c)
    BY <2>1, <2>2 DEF Request, Supersede, notUI
  <2>3. CASE Elevate
    BY <2>1, <2>3 DEF Elevate, notUI
  <2>4. CASE RequestReload
    <3>1. CASE reloadQueued
      BY <2>1, <2>4, <3>1 DEF RequestReload, notUI
    <3>2. CASE ~reloadQueued
      BY <2>4, <3>2, PostedOne DEF RequestReload, Plain, ReloadPending
    <3> QED
      BY <3>1, <3>2
  <2>5. CASE Enqueue
    <3>1. ReloadPending /\ UNCHANGED <<wpc, cmd>>
      BY <1>1, <2>5 DEF Enqueue, notUI
    <3>2. Head(posting) \in Command /\ Head(posting) = posting[1] /\ Len(posting) = 1
      BY <1>0, <2>5, TailEnds DEF Enqueue, QueueInv
    <3>3. commands' = Append(commands, posting[1])
      BY <2>5, <3>2 DEF Enqueue
    <3>4. \A i \in DOMAIN commands : i \in DOMAIN commands' /\ commands'[i] = commands[i]
      BY <1>0, <3>2, <3>3, AppendEnds
    <3>5. Len(commands) + 1 \in DOMAIN commands' /\ commands'[Len(commands) + 1] = posting[1]
      BY <1>0, <3>2, <3>3, AppendEnds
    <3>6. \A i \in DOMAIN posting : i = 1
      BY <1>0, <3>2, LenProperties
    <3> QED
      BY <3>1, <3>4, <3>5, <3>6 DEF ReloadPending
  <2>6. CASE Shutdown
    BY <2>6 DEF Shutdown
  <2>7. CASE JoinWorker
    BY <1>2, <2>7 DEF JoinWorker
  <2> QED
    BY <1>2, <1>6, <2>2, <2>3, <2>4, <2>5, <2>6, <2>7, UISteps
<1> QED
  BY <1>3, <1>4, <1>5, <1>6 DEF Next, Rest

-----------------------------------------------------------------------------
(* Only the newest scan command can run to its end.                        *)

NewestOrCancelled(c) == c.kind \in ScanKinds /\ ~IsCancelled(c) => scanCancels = {c.id}

Engaged == wpc \notin {"idle", "exited"}

LEMMA OthersCancelledParts ==
    OthersCancelled <=> /\ \A i \in DOMAIN commands : NewestOrCancelled(commands[i])
                        /\ \A i \in DOMAIN posting : NewestOrCancelled(posting[i])
                        /\ Engaged => NewestOrCancelled(cmd)
BY DEF OthersCancelled, Outstanding, NewestOrCancelled, Engaged, ScanKinds

LEMMA OthersCancelledPrimed ==
    OthersCancelled' <=> /\ \A i \in DOMAIN commands' : NewestOrCancelled(commands[i])'
                         /\ \A i \in DOMAIN posting' : NewestOrCancelled(posting[i])'
                         /\ Engaged' => NewestOrCancelled(cmd)'
BY DEF OthersCancelled, Outstanding, NewestOrCancelled, Engaged, ScanKinds

LEMMA OthersCancelledInit == Init => OthersCancelled
BY OthersCancelledParts, PostedOne DEF Init, Engaged

LEMMA OthersCancelledStep == TypeOK /\ QueueInv /\ OthersCancelled /\ [Next]_vars => OthersCancelled'
<1> SUFFICES ASSUME TypeOK, QueueInv, OthersCancelled, [Next]_vars PROVE OthersCancelled'
  OBVIOUS
<1> USE DEF uiVars, queueVars, workVars, flagVars
<1>0. commands \in Seq(Command) /\ posting \in Seq(Command)
  BY DEF TypeOK, QueueTypeOK
<1>1. /\ \A i \in DOMAIN commands : NewestOrCancelled(commands[i])
      /\ \A i \in DOMAIN posting : NewestOrCancelled(posting[i])
      /\ Engaged => NewestOrCancelled(cmd)
  BY OthersCancelledParts
<1>2. ASSUME UNCHANGED <<cancelled, scanCancels>>
      PROVE  \A c : NewestOrCancelled(c) => NewestOrCancelled(c)'
  BY <1>2 DEF NewestOrCancelled, IsCancelled
<1>3. ASSUME UNCHANGED <<cancelled, scanCancels, commands, posting, wpc, cmd>> PROVE OthersCancelled'
  BY <1>1, <1>3 DEF NewestOrCancelled, IsCancelled, Engaged, OthersCancelled, Outstanding, ScanKinds
<1>4. ASSUME cancelled' = cancelled \cup scanCancels
      PROVE  \A c : NewestOrCancelled(c) => NewestOrCancelled(c)'
  BY <1>4 DEF NewestOrCancelled, IsCancelled
<1>5. CASE Worker
  <2>1. UNCHANGED <<posting, cancelled, scanCancels>>
    BY <1>5, WorkerSteps DEF notWorker
  <2>2. \A c : NewestOrCancelled(c) => NewestOrCancelled(c)'
    BY <1>2, <2>1
  <2>3. \A i \in DOMAIN posting' : NewestOrCancelled(posting[i])'
    BY <1>1, <2>1, <2>2
  <2>4. ASSUME UNCHANGED <<commands, cmd>>, Engaged' => Engaged PROVE OthersCancelled'
    BY <1>1, <2>2, <2>3, <2>4, OthersCancelledPrimed
  <2>5. CASE Take
    <3>1. \A i \in 1..(Len(commands) - 1) : commands'[i] = commands[i + 1] /\ i + 1 \in DOMAIN commands
      BY <1>0, <2>5, TailEnds DEF Take
    <3>2. /\ DOMAIN commands' = 1..(Len(commands) - 1)
          /\ cmd' = commands[1] /\ 1 \in DOMAIN commands
      BY <1>0, <2>5, TailEnds DEF Take
    <3>3. \A i \in DOMAIN commands' : NewestOrCancelled(commands[i])'
      BY <1>1, <2>2, <3>1, <3>2
    <3>4. NewestOrCancelled(cmd)'
      BY <1>1, <2>2, <3>2
    <3> QED
      BY <2>3, <3>3, <3>4, OthersCancelledPrimed
  <2>6. CASE EndBusy
    <3>1. NewestOrCancelled(cmd)' /\ UNCHANGED commands
      BY <2>6 DEF EndBusy, Plain, NewestOrCancelled, ScanKinds
    <3> QED
      BY <1>1, <2>2, <2>3, <3>1, OthersCancelledPrimed
  <2>7. CASE WorkerExits \/ SkipCommand \/ BeginCommand \/ Complete \/ ReportIdle \/ BeginReload \/ StopMonitoring
    BY <2>4, <2>7 DEF WorkerExits, SkipCommand, BeginCommand, Complete, ReportIdle, BeginReload, StopMonitoring,
                      notQueue, Engaged
  <2>8. CASE ScanStep \/ ReloadStep
    BY <2>4, <2>8 DEF ScanStep, ReloadStep, Engaged, BusyStates
  <2> QED
    BY <1>5, <2>5, <2>6, <2>7, <2>8, WorkerSteps
<1>6. CASE FileOps
  BY <1>3, <1>6, FileOpsSteps DEF notFileOps
<1>7. CASE UNCHANGED vars
  BY <1>3, <1>7 DEF vars
<1>8. CASE UI
  <2>1. ASSUME NEW c, NewestOrCancelled(c)', posting' = <<c>>, cancelled' = cancelled \cup scanCancels,
               UNCHANGED <<commands, wpc, cmd>>
        PROVE  OthersCancelled'
    BY <1>1, <1>4, <2>1, PostedOne, OthersCancelledPrimed DEF Engaged
  <2>2. ASSUME NEW c, Request(c) PROVE OthersCancelled'
    BY <2>1, <2>2 DEF Request, Supersede, notUI, NewestOrCancelled
  <2>3. CASE Elevate
    <3>1. NewestOrCancelled(Plain("stop"))'
      BY DEF NewestOrCancelled, Plain, ScanKinds
    <3> QED
      BY <2>1, <2>3, <3>1 DEF Elevate, notUI
  <2>4. CASE RequestReload
    <3>1. \A i \in DOMAIN posting' : posting'[i].kind = "reload"
      BY <2>4, PostedOne DEF RequestReload, Plain
    <3>2. UNCHANGED <<cancelled, scanCancels, commands, wpc, cmd>>
      BY <2>4 DEF RequestReload, notUI
    <3>3. \A i \in DOMAIN posting' : NewestOrCancelled(posting[i])'
      BY <3>1 DEF NewestOrCancelled, ScanKinds
    <3> QED
      BY <1>1, <1>2, <3>2, <3>3, OthersCancelledPrimed DEF Engaged
  <2>5. CASE Enqueue
    <3>1. UNCHANGED <<cancelled, scanCancels, wpc, cmd>> /\ posting' = <<>>
      BY <2>5 DEF Enqueue, notUI
    <3>2. Head(posting) \in Command /\ Head(posting) = posting[1] /\ 1 \in DOMAIN posting
      BY <1>0, <2>5, TailEnds DEF Enqueue
    <3>3. commands' = Append(commands, posting[1])
      BY <2>5, <3>2 DEF Enqueue
    <3>4. \A i \in DOMAIN commands' : NewestOrCancelled(commands'[i])
      BY <1>0, <1>1, <3>2, <3>3, AppendEnds
    <3> QED
      BY <1>1, <1>2, <3>1, <3>4, PostedOne, OthersCancelledPrimed DEF Engaged
  <2>6. CASE Shutdown
    <3>1. cancelled' = cancelled \cup scanCancels /\ commands' = <<>> /\ UNCHANGED <<posting, wpc, cmd>>
      BY <2>6 DEF Shutdown, notUI
    <3> QED
      BY <1>1, <1>4, <3>1, PostedOne, OthersCancelledPrimed DEF Engaged
  <2>7. CASE JoinWorker
    BY <1>3, <2>7 DEF JoinWorker
  <2> QED
    BY <1>3, <1>8, <2>2, <2>3, <2>4, <2>5, <2>6, <2>7, UISteps
<1> QED
  BY <1>5, <1>6, <1>7, <1>8 DEF Next, Rest

-----------------------------------------------------------------------------
(* Busy is reported while there is work for it to cover.                   *)

Work == ScansIn(commands) + ScansIn(posting) + One(IsScan)

BusyFacts ==
    ~shuttingDown => /\ pendingBusy = Work
                     /\ busyReported => wpc = "reportIdle" \/ pendingBusy > 0

LEMMA BusyParts == QueueInv => (BusyInv <=> BusyFacts)
<1> SUFFICES ASSUME QueueInv PROVE BusyInv <=> BusyFacts
  OBVIOUS
<1>1. (IF IsScan /\ wpc \notin {"idle", "reportIdle"} THEN 1 ELSE 0) = One(IsScan)
  BY DEF QueueInv, One
<1>2. BusyMatchesWork <=> (~shuttingDown => /\ pendingBusy = Work
                                            /\ wpc = "idle" /\ busyReported => pendingBusy > 0)
  BY <1>1 DEF BusyMatchesWork, Work
<1> QED
  BY <1>2 DEF BusyInv, BusyFacts

LEMMA BusyPartsPrimed == QueueInv' => (BusyInv' <=> BusyFacts')
BY BusyParts, PTL

LEMMA BusyInit == Init => BusyInv
<1>1. ASSUME Init PROVE BusyInv
  BY <1>1, ScansInNone DEF Init, BusyInv, BusyMatchesWork
<1> QED
  BY <1>1

LEMMA BusyStep == TypeOK /\ QueueInv /\ QueueInv' /\ BusyInv /\ [Next]_vars => BusyInv'
<1> SUFFICES ASSUME TypeOK, QueueInv, QueueInv', BusyInv, [Next]_vars PROVE BusyFacts'
  BY BusyPartsPrimed
<1> USE DEF uiVars, queueVars, workVars, flagVars
<1>0. /\ commands \in Seq(Command) /\ posting \in Seq(Command) /\ pendingBusy \in Int
      /\ ScansIn(commands) \in Nat /\ ScansIn(posting) \in Nat
  BY ScansFinite DEF TypeOK, QueueTypeOK
<1>1. BusyFacts
  BY BusyParts
<1>2. ASSUME UNCHANGED <<commands, posting, pendingBusy, cmd, shuttingDown, busyReported, wpc>>
      PROVE  BusyFacts'
  BY <1>1, <1>2 DEF BusyFacts, Work, IsScan
<1>3. CASE Worker
  <2>1. UNCHANGED <<posting, shuttingDown>>
    BY <1>3, WorkerSteps DEF notWorker
  <2>2. CASE Take
    <3>1. ScansIn(commands) = ScansIn(commands') + One(cmd'.kind \in ScanKinds)
      BY <1>0, <2>2, ScansTail DEF Take
    <3>2. ~IsScan /\ wpc # "reportIdle" /\ UNCHANGED <<pendingBusy, busyReported>>
      BY <2>2 DEF Take, QueueInv
    <3>3. Work' = Work
      <4>1. IsScan' <=> cmd'.kind \in ScanKinds
        BY DEF IsScan, ScanKinds
      <4>2. One(IsScan) = 0 /\ One(IsScan)' = One(cmd'.kind \in ScanKinds)
        BY <3>2, <4>1 DEF One
      <4>3. commands' \in Seq(Command) /\ ScansIn(commands') \in Nat /\ One(cmd'.kind \in ScanKinds) \in Nat
        BY <1>0, <2>2, ScansFinite, HeadTailProperties DEF Take, One
      <4> QED
        BY <1>0, <2>1, <3>1, <4>2, <4>3 DEF Work
    <3> QED
      BY <1>1, <2>1, <3>2, <3>3 DEF BusyFacts
  <2>3. CASE WorkerExits
    BY <2>1, <2>3 DEF WorkerExits, BusyFacts
  <2>4. CASE EndBusy
    <3>1. IsScan /\ wpc = "endBusy" /\ ~IsScan' /\ UNCHANGED <<commands, busyReported>>
      BY <2>4 DEF EndBusy, QueueInv, BusyStates, IsScan, Plain
    <3>2. Work' = Work - 1 /\ Work >= 1 /\ Work \in Int
      BY <1>0, <2>1, <3>1 DEF Work, One
    <3>3. pendingBusy' = pendingBusy - 1 /\ (pendingBusy = 1 /\ busyReported => wpc' = "reportIdle")
      BY <2>4 DEF EndBusy
    <3> QED
      BY <1>0, <1>1, <2>1, <3>1, <3>2, <3>3 DEF BusyFacts
  <2>5. CASE BeginCommand
    <3>1. IsScan /\ UNCHANGED <<commands, pendingBusy, cmd>>
      BY <2>5 DEF BeginCommand, notQueue
    <3>2. Work' = Work /\ Work >= 1
      BY <1>0, <2>1, <3>1 DEF Work, One, IsScan
    <3> QED
      BY <1>0, <1>1, <2>1, <3>1, <3>2 DEF BusyFacts
  <2>6. ASSUME SkipCommand \/ Complete \/ ReportIdle \/ BeginReload \/ StopMonitoring \/ ScanStep \/ ReloadStep
        PROVE  /\ UNCHANGED <<commands, pendingBusy, cmd>>
               /\ busyReported' => busyReported /\ wpc # "reportIdle"
    BY <2>6 DEF SkipCommand, Complete, ReportIdle, BeginReload, StopMonitoring, ScanStep, ReloadStep, notQueue,
                BusyStates
  <2>7. ASSUME UNCHANGED <<commands, pendingBusy, cmd>>, busyReported' => busyReported /\ wpc # "reportIdle"
        PROVE  BusyFacts'
    <3>1. Work' = Work
      BY <2>1, <2>7 DEF Work, IsScan
    <3> QED
      BY <1>1, <2>1, <2>7, <3>1 DEF BusyFacts
  <2> QED
    BY <1>3, <2>2, <2>3, <2>4, <2>5, <2>6, <2>7, WorkerSteps
<1>4. CASE FileOps
  BY <1>2, <1>4, FileOpsSteps DEF notFileOps
<1>5. CASE UNCHANGED vars
  BY <1>2, <1>5 DEF vars
<1>6. CASE UI
  <2>1. ASSUME NEW c \in Command, posting = <<>>, posting' = <<c>>,
               pendingBusy' = pendingBusy + One(c.kind \in ScanKinds),
               UNCHANGED <<commands, cmd, shuttingDown, busyReported, wpc>>
        PROVE  BusyFacts'
    <3>1. posting' = Append(posting, c)
      BY <2>1
    <3>2. ScansIn(posting') = ScansIn(posting) + One(c.kind \in ScanKinds)
      BY <1>0, <3>1, ScansAppend
    <3>3. One(c.kind \in ScanKinds) \in Nat /\ One(IsScan) \in Nat /\ One(IsScan)' = One(IsScan)
      BY <2>1 DEF One, IsScan
    <3>4. Work' = Work + One(c.kind \in ScanKinds)
      BY <1>0, <2>1, <3>2, <3>3 DEF Work
    <3> HIDE DEF Work
    <3> QED
      BY <1>0, <1>1, <2>1, <3>3, <3>4 DEF BusyFacts
  <2>2. ASSUME NEW c, Request(c) PROVE BusyFacts'
    BY <2>1, <2>2 DEF Request, CanPost, Supersede, notUI, One
  <2>3. \A kind \in Kinds \ ScanKinds : Plain(kind) \in Command /\ One(Plain(kind).kind \in ScanKinds) = 0
    BY PlainType DEF One, Plain
  <2>4. CASE Elevate
    <3>1. One(Plain("stop").kind \in ScanKinds) = 0 /\ Plain("stop") \in Command
      BY <2>3 DEF Kinds, ScanKinds
    <3> QED
      BY <1>0, <2>1, <2>4, <3>1 DEF Elevate, CanPost, notUI
  <2>5. CASE RequestReload
    <3>1. One(Plain("reload").kind \in ScanKinds) = 0 /\ Plain("reload") \in Command
      BY <2>3 DEF Kinds, ScanKinds
    <3>2. CASE reloadQueued
      BY <1>2, <2>5, <3>2 DEF RequestReload, CanPost, notUI
    <3>3. CASE ~reloadQueued
      BY <1>0, <2>1, <2>5, <3>1, <3>3 DEF RequestReload, CanPost, notUI
    <3> QED
      BY <3>2, <3>3
  <2>6. CASE Enqueue
    <3> DEFINE c == Head(posting)
    <3>1. c \in Command /\ Tail(posting) = <<>> /\ commands' = Append(commands, c) /\ posting' = <<>>
      BY <1>0, <2>6, TailEnds DEF Enqueue, QueueInv
    <3>2. UNCHANGED <<pendingBusy, cmd, shuttingDown, busyReported, wpc>> /\ posting # <<>>
      BY <2>6 DEF Enqueue, notUI
    <3>3. ScansIn(posting) = One(c.kind \in ScanKinds)
      <4>1. ScansIn(posting) = ScansIn(<<>>) + One(c.kind \in ScanKinds)
        BY <1>0, <3>1, <3>2, ScansTail
      <4> QED
        BY <4>1, ScansInNone DEF One
    <3>4. ScansIn(commands') = ScansIn(commands) + One(c.kind \in ScanKinds)
      BY <1>0, <3>1, ScansAppend
    <3>5. Work' = Work
      <4>1. One(IsScan) \in Nat /\ One(IsScan)' = One(IsScan) /\ ScansIn(posting)' = 0
        BY <3>1, <3>2, ScansInNone DEF One, IsScan
      <4> HIDE DEF c
      <4> QED
        BY <1>0, <3>3, <3>4, <4>1 DEF Work
    <3> QED
      BY <1>1, <3>2, <3>5 DEF BusyFacts
  <2>7. CASE Shutdown
    BY <2>7 DEF Shutdown, BusyFacts
  <2>8. CASE JoinWorker
    BY <1>2, <2>8 DEF JoinWorker
  <2> QED
    BY <1>2, <1>6, <2>2, <2>4, <2>5, <2>6, <2>7, <2>8, UISteps
<1> QED
  BY <1>3, <1>4, <1>5, <1>6 DEF Next, Rest

-----------------------------------------------------------------------------
(* A scan that stops half-way has been cancelled.                          *)

LEMMA RunInit == Init => RunInv
BY DEF Init, RunInv, BusyStates

LEMMA RunStep == TypeOK /\ QueueInv /\ RunInv /\ [Next]_vars => RunInv'
<1> SUFFICES ASSUME TypeOK, QueueInv, RunInv, [Next]_vars PROVE RunInv'
  OBVIOUS
<1> USE DEF uiVars, queueVars, workVars, flagVars, IsCancelled
<1>1. ASSUME UNCHANGED <<wpc, cmd, completed, needsFullRebuild>>, cancelled \subseteq cancelled',
             UNCHANGED monitored \/ wpc = "exited"
      PROVE  RunInv'
  BY <1>1 DEF RunInv
<1>2. CASE Worker
  <2>1. UNCHANGED cancelled
    BY <1>2, WorkerSteps DEF notWorker
  <2>2. CASE Take \/ WorkerExits \/ SkipCommand \/ BeginCommand \/ EndBusy \/ ReportIdle \/ BeginReload
             \/ StopMonitoring
    BY <2>1, <2>2 DEF Take, WorkerExits, SkipCommand, BeginCommand, EndBusy, ReportIdle, BeginReload, StopMonitoring,
                      RunInv, BusyStates
  <2>3. CASE Complete
    BY <2>1, <2>3 DEF Complete, RunInv, BusyStates
  <2>4. CASE ScanStep
    BY <2>1, <2>4 DEF ScanStep, RunInv, BusyStates
  <2>5. CASE ReloadStep
    BY <2>1, <2>5 DEF ReloadStep, RunInv, BusyStates
  <2> QED
    BY <1>2, <2>2, <2>3, <2>4, <2>5, WorkerSteps
<1>3. CASE FileOps
  BY <1>1, <1>3, FileOpsSteps DEF notFileOps
<1>4. CASE UNCHANGED vars
  BY <1>1, <1>4 DEF vars
<1>5. CASE UI
  <2>1. CASE \E c : Request(c)
    BY <1>1, <2>1 DEF Request, Supersede, notUI
  <2>2. CASE Elevate
    BY <1>1, <2>2 DEF Elevate, notUI
  <2>3. CASE RequestReload \/ Enqueue
    BY <1>1, <2>3 DEF RequestReload, Enqueue, notUI
  <2>4. CASE Shutdown
    BY <1>1, <2>4 DEF Shutdown, notUI
  <2>5. CASE JoinWorker
    BY <1>1, <2>5 DEF JoinWorker
  <2> QED
    BY <1>1, <1>5, <2>1, <2>2, <2>3, <2>4, <2>5, UISteps
<1> QED
  BY <1>2, <1>3, <1>4, <1>5 DEF Next, Rest

-----------------------------------------------------------------------------
(* Nothing waits behind the newest scan command.                           *)

LEMMA NewestLastInit == Init => NewestLast
<1> SUFFICES ASSUME Init PROVE NewestLast
  OBVIOUS
<1>1. Up /\ ~elevated /\ DOMAIN commands = {}
  BY PostedOne DEF Init, Up
<1>2. ~Runnable(cmd)
  BY DEF Init, Plain, Runnable, ScanKinds
<1> QED
  BY <1>1, <1>2 DEF NewestLast

LEMMA NewestLastStep ==
    TypeOK /\ QueueInv /\ OthersCancelled /\ NewestLast /\ [Next]_vars => NewestLast'
<1> SUFFICES ASSUME TypeOK, QueueInv, OthersCancelled, NewestLast, [Next]_vars PROVE NewestLast'
  OBVIOUS
<1> USE DEF uiVars, queueVars, workVars, flagVars
<1>0. commands \in Seq(Command) /\ posting \in Seq(Command) /\ cmd \in Command
  BY DEF TypeOK, QueueTypeOK, WorkerTypeOK
<1>1. /\ \A i \in DOMAIN commands : Runnable(commands[i]) => scanCancels = {commands[i].id}
      /\ \A i \in DOMAIN posting : Runnable(posting[i]) => scanCancels = {posting[i].id}
      /\ Runnable(cmd) => scanCancels = {cmd.id}
  <2>1. Runnable(cmd) => Engaged
    BY DEF Runnable, QueueInv, Engaged, IsScan, ScanKinds
  <2> QED
    BY <2>1, OthersCancelledParts DEF NewestOrCancelled, Runnable
<1>2. ASSUME UNCHANGED <<ui, elevated, cancelled, scanCancels, commands, posting, cmd>> PROVE NewestLast'
  BY <1>2 DEF NewestLast, Up, Runnable, IsCancelled
<1>3. CASE Worker
  <2>1. UNCHANGED <<ui, elevated, posting, cancelled, scanCancels>>
    BY <1>3, WorkerSteps DEF notWorker
  <2>2. CASE Take
    <3>1. \A i \in 1..(Len(commands) - 1) :
              commands'[i] = commands[i + 1] /\ i + 1 \in DOMAIN commands /\ (i + 1 = Len(commands) <=> i = Len(commands) - 1)
      BY <1>0, <2>2, TailEnds DEF Take
    <3>2. /\ DOMAIN commands' = 1..(Len(commands) - 1) /\ Len(commands') = Len(commands) - 1
          /\ cmd' = commands[1] /\ 1 \in DOMAIN commands /\ (Len(commands) = 1 => commands' = <<>>)
      BY <1>0, <2>2, TailEnds DEF Take
    <3>3. \A c : Runnable(c)' = Runnable(c)
      BY <2>1 DEF Runnable, IsCancelled
    <3> QED
      BY <2>1, <3>1, <3>2, <3>3 DEF NewestLast, Up
  <2>3. CASE EndBusy
    <3>1. ~Runnable(cmd)' /\ UNCHANGED commands
      BY <2>3 DEF EndBusy, Plain, Runnable, ScanKinds
    <3> QED
      BY <2>1, <3>1 DEF NewestLast, Up, Runnable, IsCancelled
  <2>4. CASE WorkerExits \/ SkipCommand \/ BeginCommand \/ Complete \/ ReportIdle \/ BeginReload \/ StopMonitoring
    BY <1>2, <2>1, <2>4 DEF WorkerExits, SkipCommand, BeginCommand, Complete, ReportIdle, BeginReload,
                            StopMonitoring, notQueue
  <2>5. CASE ScanStep \/ ReloadStep
    BY <1>2, <2>1, <2>5 DEF ScanStep, ReloadStep
  <2> QED
    BY <1>3, <2>2, <2>3, <2>4, <2>5, WorkerSteps
<1>4. CASE FileOps
  BY <1>2, <1>4, FileOpsSteps DEF notFileOps
<1>5. CASE UNCHANGED vars
  BY <1>2, <1>5 DEF vars
<1>6. CASE UI
  <2>1. ASSUME cancelled' = cancelled \cup scanCancels, NEW c, Runnable(c) => scanCancels = {c.id}
        PROVE  ~Runnable(c)'
    BY <2>1 DEF Runnable, IsCancelled
  <2>2. ASSUME cancelled' = cancelled \cup scanCancels, UNCHANGED <<commands, cmd>>
        PROVE  (\A i \in DOMAIN commands' : ~Runnable(commands[i])') /\ ~Runnable(cmd)'
    BY <1>1, <2>1, <2>2
  <2>3. ASSUME NEW c, Request(c) PROVE NewestLast'
    <3>1. cancelled' = cancelled \cup scanCancels /\ UNCHANGED <<ui, commands, cmd>> /\ Up /\ ~elevated'
      BY <2>3 DEF Request, Supersede, notUI, CanPost, Up
    <3> QED
      BY <2>2, <3>1 DEF NewestLast, Up
  <2>4. CASE Elevate
    <3>1. cancelled' = cancelled \cup scanCancels /\ UNCHANGED <<commands, cmd>> /\ scanCancels' = {}
      BY <2>4 DEF Elevate, notUI
    <3> QED
      BY <2>2, <3>1 DEF NewestLast
  <2>5. CASE RequestReload
    <3>1. UNCHANGED <<cancelled, commands, cmd, scanCancels, elevated>> /\ elevated
      BY <2>5 DEF RequestReload, notUI
    <3>2. (\A i \in DOMAIN commands' : ~Runnable(commands[i])') /\ ~Runnable(cmd)'
      BY <1>1, <3>1 DEF NewestLast, Runnable, IsCancelled
    <3> QED
      BY <3>1, <3>2 DEF NewestLast
  <2>6. CASE Enqueue
    <3>1. UNCHANGED <<ui, elevated, cancelled, scanCancels, cmd>> /\ posting # <<>> /\ posting' = <<>>
      BY <2>6 DEF Enqueue, notUI
    <3>2. Head(posting) \in Command /\ commands' = Append(commands, Head(posting))
      BY <1>0, <2>6, TailEnds DEF Enqueue
    <3>3. \A i \in DOMAIN commands' : Runnable(commands'[i]) => i = Len(commands')
      BY <1>0, <3>1, <3>2, AppendEnds DEF NewestLast
    <3> QED
      BY <3>1, <3>3 DEF NewestLast, Up, Runnable, IsCancelled
  <2>7. CASE Shutdown
    <3>1. cancelled' = cancelled \cup scanCancels /\ UNCHANGED cmd /\ scanCancels' = {} /\ DOMAIN commands' = {}
      BY <2>7, PostedOne DEF Shutdown, notUI
    <3>2. ~Runnable(cmd)'
      BY <1>1, <2>1, <3>1
    <3> QED
      BY <3>1, <3>2 DEF NewestLast
  <2>8. CASE JoinWorker
    <3>1. ~Up /\ ~Up' /\ UNCHANGED <<elevated, cancelled, scanCancels, commands, posting, cmd>>
      BY <2>8 DEF JoinWorker, Up
    <3> QED
      BY <3>1 DEF NewestLast, Runnable, IsCancelled
  <2>9. CASE JoinFileOps
    <3>1. ~Up /\ ~Up' /\ UNCHANGED <<elevated, cancelled, scanCancels, commands, posting, cmd>>
      BY <2>9 DEF JoinFileOps, Up, notUI
    <3> QED
      BY <3>1 DEF NewestLast, Runnable, IsCancelled
  <2>10. CASE HelperSaves \/ Unposted \/ \E S \in SUBSET Paths \ {{}} : RequestFileOperations(S)
    BY <1>2, <2>10 DEF HelperSaves, HelperSave, Unposted, ChangeUnposted, RequestFileOperations, notUI
  <2> QED
    BY <1>6, <2>3, <2>4, <2>5, <2>6, <2>7, <2>8, <2>9, <2>10, UISteps
<1> QED
  BY <1>3, <1>4, <1>5, <1>6 DEF Next, Rest

-----------------------------------------------------------------------------
(* The index is that of the roots it was last brought to.                  *)

LEMMA CoversMeans ==
    ASSUME TypeOK, NEW pl, NEW roots
    PROVE  Covers(pl, roots) <=> \A p \in fs : pl[p] = One(RootOf[p] \in roots)
BY DEF TypeOK, StoreTypeOK, Covers, PoolOf, Under, One

\* The file-operations thread takes no entry away that is still owed: what it
\* removes, it has removed from the file system first.
LEMMA FileOpsData ==
    ASSUME TypeOK, WorkerInStep, FileOps
    PROVE  /\ UNCHANGED <<notFileOps, staleLoad, asked, missed>> /\ fs' \subseteq fs
           /\ \A p \in fs' : pool'[p] = pool[p]
           /\ \A p \in removedDuringScan' : p \in removedDuringScan \/ p \notin fs'
<1> USE DEF scanVars, ghostVars, requestGhosts
<1>1. CASE TakeBatch \/ FileOpsExit \/ ReportBatch
  BY <1>1 DEF TakeBatch, FileOpsExit, ReportBatch
<1>2. CASE \E p \in Paths : Operate(p)
  BY <1>2 DEF Operate
<1>3. CASE Record
  BY <1>3 DEF Record, WorkerInStep
<1>4. CASE Apply
  <2>1. op \notin fs /\ fs' = fs /\ fs \subseteq Paths /\ pool \in Pool /\ pool' = Removed(pool, op)
    BY <1>4 DEF Apply, WorkerInStep, TypeOK, StoreTypeOK
  <2>2. \A p \in fs : pool'[p] = pool[p]
    BY <2>1 DEF Removed, Pool
  <2> QED
    BY <1>4, <2>1, <2>2 DEF Apply
<1> QED
  BY <1>1, <1>2, <1>3, <1>4 DEF FileOps

\* An index that is right for some roots stays so, and is right for any others
\* that differ from them in missed roots only.
LEMMA CurrentMoves ==
    ASSUME TypeOK, NEW these, NEW those, Current(these), UNCHANGED staleLoad, missed \subseteq missed',
           fs' \subseteq fs, \A p \in fs' : pool'[p] = pool[p],
           \A r \in Roots \ missed' : r \in these <=> r \in those
    PROVE  Current(those)'
<1>1. CASE staleLoad
  BY <1>1 DEF Current
<1>2. CASE Right(pool, these)
  <2>1. ASSUME NEW p \in fs', RootOf[p] \notin missed' PROVE pool'[p] = One(RootOf[p] \in those)
    <3>1. p \in fs /\ RootOf[p] \in Roots /\ RootOf[p] \notin missed
      BY <2>1, RootOfAssumption DEF TypeOK, StoreTypeOK
    <3>2. pool'[p] = One(RootOf[p] \in these)
      BY <1>2, <2>1, <3>1 DEF Right
    <3> QED
      BY <2>1, <3>1, <3>2 DEF One
  <2> QED
    BY <2>1 DEF Current, Right
<1> QED
  BY <1>1, <1>2 DEF Current

LEMMA CurrentStays ==
    ASSUME TypeOK, NEW roots, Current(roots), UNCHANGED staleLoad, missed \subseteq missed',
           fs' \subseteq fs, \A p \in fs' : pool'[p] = pool[p]
    PROVE  Current(roots)'
BY CurrentMoves

LEMMA DataInit == Init => DataInv
BY DEF Init, DataInv

\* What DataInv depends on, and how much of it may change at any time.
LEMMA DataFrame ==
    ASSUME TypeOK, TypeOK', DataInv, fs' \subseteq fs, \A p \in fs' : pool'[p] = pool[p],
           \A p \in again' \cup removedDuringScan' : p \in again \cup removedDuringScan \/ p \notin fs',
           missed \subseteq missed',
           UNCHANGED <<wpc, cmd, mode, todo, inflight, staged, completed, needsFullRebuild, staleLoad>>
    PROVE  DataInv'
<1>1. \A p \in again' \cup removedDuringScan' : p \notin fs'
  BY DEF DataInv
<1>2. \A roots : Current(roots) => Current(roots)'
  BY CurrentStays
<1>3. Trusted(cmd) => Trusted(cmd)'
  BY <1>2 DEF Trusted
<1>4. Found(staged) => Found(staged)'
  BY DEF Found, Counted
<1>5. FoundBeside(pool) => FoundBeside(pool)'
  BY DEF FoundBeside, Counted
<1> QED
  BY <1>1, <1>2, <1>3, <1>4, <1>5 DEF DataInv

LEMMA UIData ==
    ASSUME TypeOK, UI
    PROVE  /\ UNCHANGED <<scanVars, wpc, workVars, needsFullRebuild, pool, fs, staleLoad>>
           /\ missed \subseteq missed'
<1> USE DEF notUI, flagVars, ghostVars, requestGhosts, storeGhosts
<1>1. CASE \E c : Request(c)
  BY <1>1 DEF Request, Supersede
<1>2. CASE Elevate \/ RequestReload \/ Enqueue
  BY <1>2 DEF Elevate, RequestReload, Enqueue
<1>3. CASE Shutdown \/ JoinWorker \/ JoinFileOps
  BY <1>3 DEF Shutdown, JoinWorker, JoinFileOps
<1>4. CASE HelperSaves \/ \E S \in SUBSET Paths \ {{}} : RequestFileOperations(S)
  BY <1>4 DEF HelperSaves, HelperSave, RequestFileOperations
<1>5. CASE Unposted
  BY <1>5 DEF Unposted, ChangeUnposted
<1> QED
  BY <1>1, <1>2, <1>3, <1>4, <1>5, UISteps

LEMMA DataUI == ASSUME TypeOK, TypeOK', DataInv, UI PROVE DataInv'
  BY UIData, DataFrame DEF scanVars, workVars

\* A worker step that leaves the pool and the scan alone, and where it leads.
LEMMA DataQuiet ==
    ASSUME TypeOK, TypeOK', DataInv,
           UNCHANGED <<pool, fs, staleLoad, missed, cmd, again, removedDuringScan>>,
           wpc' \notin {"mark", "scan", "prune", "endBusy"},
           wpc' \in {"serialize", "write", "finish", "reapply", "complete"} /\ completed' => Current(cmd.roots)
    PROVE  DataInv'
<1>1. \A roots : Current(roots) => Current(roots)'
  BY CurrentStays
<1> QED
  BY <1>1 DEF DataInv

LEMMA DataMark ==
    ASSUME TypeOK, TypeOK', QueueInv, WorkerInStep, DataInv, MarkScan PROVE DataInv'
<1> DEFINE added == AddedRoots(cmd)
<1>1. /\ UNCHANGED <<pool, fs, staleLoad, missed, cmd, again, removedDuringScan, inflight, needsFullRebuild>>
      /\ wpc = "mark" /\ inflight = {} /\ mode' = Mode(cmd) /\ staged' = PoolOf({})
  BY DEF MarkScan, notWorker, flagVars, ghostVars, requestGhosts, WorkerInStep
<1>2. /\ Trusted(cmd) /\ cmd.kind \in ScanKinds /\ fs \subseteq Paths
      /\ \A p \in again' \cup removedDuringScan' : p \notin fs'
  BY <1>1 DEF DataInv, QueueInv, BusyStates, IsScan, ScanKinds, TypeOK, StoreTypeOK
<1>3. \A roots : Current(roots) => Current(roots)'
  BY <1>1, CurrentStays
<1>4. ASSUME Mode(cmd) \notin {"full", "load"} PROVE Mode(cmd) = ModeOfDiff(cmd) /\ Current(cmd.old)
  BY <1>2, <1>4 DEF Mode, Trusted, ScanKinds
<1>5. CASE Mode(cmd) = "full"
  <2>1. wpc' = "scan" /\ todo' = Under(cmd.roots)
    BY <1>5 DEF MarkScan
  <2>2. Found(staged)'
    BY <1>1, <1>2, <2>1 DEF Found, Counted, Under, PoolOf, One
  <2> QED
    BY <1>1, <1>2, <1>5, <2>1, <2>2 DEF DataInv
<1>6. CASE Mode(cmd) = "load"
  <2>1. wpc' = "load"
    BY <1>6 DEF MarkScan
  <2> QED
    BY <1>1, <1>2, <2>1 DEF DataInv
<1>7. CASE Mode(cmd) = "add"
  <2>1. wpc' = "scan" /\ todo' = Under(added)
    BY <1>7 DEF MarkScan
  <2>2. Current(cmd.old) /\ RemovedRoots(cmd) = {}
    <3>1. ModeOfDiff(cmd) = "add" /\ Current(cmd.old)
      BY <1>4, <1>7
    <3> QED
      BY <3>1 DEF ModeOfDiff
  <2>3. ASSUME ~staleLoad PROVE FoundBeside(pool)'
    <3>1. \A p \in fs : RootOf[p] \notin missed => pool[p] = One(RootOf[p] \in cmd.old)
      BY <2>2, <2>3 DEF Current, Right
    <3>2. \A p \in fs : /\ p \in todo' <=> RootOf[p] \in cmd.roots /\ RootOf[p] \notin cmd.old
                        /\ RootOf[p] \in cmd.old => RootOf[p] \in cmd.roots
      BY <1>2, <2>1, <2>2 DEF AddedRoots, RemovedRoots, Under
    <3> QED
      BY <1>1, <3>1, <3>2 DEF FoundBeside, Counted, One
  <2> QED
    BY <1>1, <1>2, <1>7, <2>1, <2>3 DEF DataInv
<1>8. CASE Mode(cmd) = "prune"
  <2>1. wpc' = "prune"
    BY <1>8 DEF MarkScan
  <2>2. ModeOfDiff(cmd) = "prune" /\ Current(cmd.old)
    BY <1>4, <1>8
  <2>3. cmd.roots \subseteq cmd.old
    BY <2>2 DEF ModeOfDiff, AddedRoots
  <2> QED
    BY <1>1, <1>2, <1>3, <2>1, <2>2, <2>3 DEF DataInv
<1>9. CASE Mode(cmd) = "none"
  <2>1. wpc' = "finish"
    BY <1>9 DEF MarkScan
  <2>2. ModeOfDiff(cmd) = "none" /\ Current(cmd.old)
    BY <1>4, <1>9
  <2>3. cmd.roots = cmd.old
    BY <2>2 DEF ModeOfDiff, AddedRoots, RemovedRoots
  <2> QED
    BY <1>1, <1>2, <1>3, <2>1, <2>2, <2>3 DEF DataInv
<1> QED
  BY <1>5, <1>6, <1>7, <1>8, <1>9, ModeType DEF Modes

LEMMA DataWorker ==
    ASSUME TypeOK, TypeOK', QueueInv, WorkerInStep, DataInv, Worker, BeginCommand => Trusted(cmd)
    PROVE  DataInv'
<1> USE DEF notWorker, workVars, flagVars, ghostVars, requestGhosts, scanVars
<1>0. /\ fs' = fs /\ fs \subseteq Paths /\ pool \in Pool /\ staged \in Pool
      /\ \A p \in fs : pool[p] \in Int /\ staged[p] \in Int
  BY WorkerSteps DEF TypeOK, WorkerTypeOK, StoreTypeOK, Pool
<1>1. CASE Take
  BY <1>1 DEF Take, DataInv
<1>2. CASE WorkerExits \/ ReportIdle \/ BeginReload \/ ReloadReads \/ StopMonitoring
  BY <1>2, DataQuiet DEF WorkerExits, ReportIdle, BeginReload, ReloadReads, StopMonitoring
<1>3. CASE SkipCommand
  BY <1>3 DEF SkipCommand, DataInv
<1>4. CASE MarkScan
  BY <1>4, DataMark
<1>5. CASE ReadFreshFile
  BY <1>5, DataQuiet DEF ReadFreshFile
<1>6. CASE RejectFile
  <2>1. inflight = {} /\ staged = PoolOf({}) /\ todo' = Under(cmd.roots) /\ mode' = "full" /\ wpc' = "scan"
    BY <1>6 DEF RejectFile, WorkerInStep
  <2>2. UNCHANGED <<inflight, staged, cmd, again, removedDuringScan>>
    BY <1>6 DEF RejectFile
  <2>3. Found(staged)'
    BY <1>0, <2>1, <2>2 DEF Found, Counted, Under, PoolOf, One
  <2> QED
    BY <1>0, <2>1, <2>2, <2>3 DEF DataInv
<1>7. CASE SwapFile
  <2>1. /\ staleLoad' = ~Covers(buf, cmd.roots) /\ pool' = buf /\ wpc' = "finish"
        /\ UNCHANGED <<cmd, again, removedDuringScan>>
    BY <1>7 DEF SwapFile
  <2>2. Covers(buf, cmd.roots) => \A p \in fs : buf[p] = One(RootOf[p] \in cmd.roots)
    BY CoversMeans
  <2>3. Current(cmd.roots)'
    BY <1>0, <2>1, <2>2 DEF Current, Right
  <2> QED
    BY <1>0, <2>1, <2>3 DEF DataInv
<1>8. ASSUME NEW p \in Paths, Look(p) PROVE DataInv'
  <2>1. /\ UNCHANGED <<wpc, cmd, mode, staged, pool, staleLoad, missed, again, removedDuringScan, completed>>
        /\ wpc = "scan"
    BY <1>8 DEF Look
  <2>2. \A q \in fs : q \in todo' \cup inflight' <=> q \in todo \cup inflight
    BY <1>8 DEF Look
  <2>3. (Found(staged) => Found(staged)') /\ (FoundBeside(pool) => FoundBeside(pool)')
    BY <1>0, <2>1, <2>2 DEF Found, FoundBeside, Counted, One
  <2> QED
    BY <1>0, <2>1, <2>3 DEF DataInv
<1>9. ASSUME NEW p \in Paths, Emit(p) PROVE DataInv'
  <2>1. /\ UNCHANGED <<wpc, cmd, mode, todo, staleLoad, missed, again, removedDuringScan, completed>>
        /\ wpc = "scan" /\ p \in inflight /\ inflight' = inflight \ {p} /\ p \notin todo
    BY <1>9 DEF Emit, WorkerInStep
  <2>2. ASSUME NEW q \in fs
        PROVE  q \in todo' \cup inflight' <=> q \in todo \cup inflight /\ q # p
    BY <2>1
  <2>3. ASSUME NEW pl \in Pool, NEW q \in fs
        PROVE  Added(pl, p)[q] = IF q = p THEN pl[q] + 1 ELSE pl[q]
    BY <1>0 DEF Added, Pool
  <2>4. CASE mode = "full"
    <3>1. staged' = Added(staged, p)
      BY <1>9, <2>4 DEF Emit
    <3>2. Found(staged)
      BY <2>1, <2>4 DEF DataInv
    <3>3. ASSUME NEW q \in fs
          PROVE  staged'[q] + One(q \in todo' \cup inflight') = One(RootOf[q] \in cmd.roots)
      <4>1. staged[q] + One(q \in todo \cup inflight) = One(RootOf[q] \in cmd.roots)
        BY <3>2 DEF Found, Counted
      <4>2. staged'[q] = IF q = p THEN staged[q] + 1 ELSE staged[q]
        BY <1>0, <2>3, <3>1
      <4> QED
        BY <1>0, <2>1, <2>2, <4>1, <4>2 DEF One
    <3>4. Found(staged)'
      BY <1>0, <2>1, <3>3 DEF Found, Counted
    <3> QED
      BY <1>0, <2>1, <2>4, <3>4 DEF DataInv
  <2>5. CASE mode # "full"
    <3>1. pool' = Added(pool, p)
      BY <1>9, <2>5 DEF Emit
    <3>2. ASSUME FoundBeside(pool), NEW q \in fs, RootOf[q] \notin missed
          PROVE  pool'[q] + One(q \in todo' \cup inflight') = One(RootOf[q] \in cmd.roots)
      <4>1. pool[q] + One(q \in todo \cup inflight) = One(RootOf[q] \in cmd.roots)
        BY <3>2 DEF FoundBeside, Counted
      <4>2. pool'[q] = IF q = p THEN pool[q] + 1 ELSE pool[q]
        BY <1>0, <2>3, <3>1
      <4> QED
        BY <1>0, <2>1, <2>2, <4>1, <4>2 DEF One
    <3>3. FoundBeside(pool) => FoundBeside(pool)'
      BY <1>0, <2>1, <3>2 DEF FoundBeside, Counted
    <3> QED
      BY <1>0, <2>1, <2>5, <3>3 DEF DataInv
  <2> QED
    BY <2>4, <2>5
<1>10. CASE ScanCompletes
  <2>1. /\ wpc = "scan" /\ wpc' = "serialize" /\ todo = {} /\ inflight = {} /\ mode \in {"full", "add"}
        /\ UNCHANGED <<cmd, again, removedDuringScan>>
    BY <1>10 DEF ScanCompletes, WorkerInStep
  <2>2. CASE mode = "full"
    <3>1. pool' = staged /\ Found(staged)
      BY <1>10, <2>1, <2>2 DEF ScanCompletes, DataInv
    <3>2. \A p \in fs : staged[p] = One(RootOf[p] \in cmd.roots)
      BY <1>0, <2>1, <3>1 DEF Found, Counted, One
    <3> QED
      BY <1>0, <2>1, <3>1, <3>2 DEF DataInv, Current, Right
  <2>3. CASE mode = "add"
    <3>1. UNCHANGED <<pool, staleLoad, missed>> /\ (staleLoad \/ FoundBeside(pool))
      BY <1>10, <2>1, <2>3 DEF ScanCompletes, DataInv
    <3>2. FoundBeside(pool) => Right(pool, cmd.roots)
      BY <1>0, <2>1 DEF FoundBeside, Counted, Right, One
    <3>3. Current(cmd.roots)'
      BY <1>0, <2>1, <3>1, <3>2 DEF Current, Right
    <3> QED
      BY <1>0, <2>1, <3>3 DEF DataInv
  <2> QED
    BY <2>1, <2>2, <2>3
<1>11. CASE ScanCancelled
  BY <1>11, DataQuiet DEF ScanCancelled
<1>12. CASE PruneRoots
  <2>1. /\ wpc = "prune" /\ wpc' = "serialize" /\ UNCHANGED <<cmd, again, removedDuringScan, staleLoad, missed>>
        /\ pool' = RemovedUnder(pool, RemovedRoots(cmd)) /\ Current(cmd.old) /\ cmd.roots \subseteq cmd.old
    BY <1>12 DEF PruneRoots, DataInv
  <2>2. ASSUME ~staleLoad, NEW p \in fs, RootOf[p] \notin missed PROVE pool'[p] = One(RootOf[p] \in cmd.roots)
    <3>1. pool[p] = One(RootOf[p] \in cmd.old)
      BY <2>1, <2>2 DEF Current, Right
    <3> QED
      BY <1>0, <2>1, <3>1 DEF RemovedUnder, RemovedRoots, One
  <2>3. Current(cmd.roots)'
    BY <1>0, <2>1, <2>2 DEF Current, Right
  <2> QED
    BY <1>0, <2>1, <2>3 DEF DataInv
<1>13. CASE Serialize \/ WriteFile
  <2>1. /\ UNCHANGED <<pool, fs, staleLoad, missed, cmd, again, removedDuringScan, completed>>
        /\ wpc' \in {"write", "finish", "complete"} /\ wpc \in {"serialize", "write"}
    BY <1>13 DEF Serialize, WriteFile
  <2>2. completed' => Current(cmd.roots)
    BY <2>1 DEF DataInv
  <2> QED
    BY <2>1, <2>2, DataQuiet
<1>14. CASE FinishScan
  <2>1. /\ UNCHANGED <<pool, fs, staleLoad, missed, cmd, completed, inflight, todo>>
        /\ wpc' \in {"reapply", "complete"} /\ wpc = "finish"
        /\ again' \cup removedDuringScan' = removedDuringScan
    BY <1>14 DEF FinishScan
  <2>2. Current(cmd.roots) => Current(cmd.roots)'
    BY <2>1 DEF Current, Right
  <2> QED
    BY <2>1, <2>2 DEF DataInv
<1>15. ASSUME NEW p \in Paths, Reapply(p) PROVE DataInv'
  <2>1. /\ UNCHANGED <<staleLoad, missed, cmd, completed, removedDuringScan>> /\ again' \subseteq again
        /\ wpc' \in {"serialize", "reapply", "complete"} /\ wpc = "reapply"
    BY <1>15 DEF Reapply
  <2>2. p \notin fs /\ pool' = Removed(pool, p)
    BY <1>15 DEF Reapply, DataInv
  <2>3. \A q \in fs : pool'[q] = pool[q]
    BY <1>0, <2>2 DEF Removed, Pool
  <2>4. Current(cmd.roots) => Current(cmd.roots)'
    BY <1>0, <2>1, <2>3, CurrentStays
  <2> QED
    BY <1>0, <2>1, <2>4 DEF DataInv
<1>16. CASE Complete
  <2>1. /\ UNCHANGED <<pool, fs, staleLoad, missed, cmd, again, removedDuringScan>> /\ wpc = "complete" /\ wpc' = "endBusy"
        /\ needsFullRebuild' = ~completed
    BY <1>16 DEF Complete
  <2>2. Current(cmd.roots) => Current(cmd.roots)'
    BY <2>1 DEF Current, Right
  <2> QED
    BY <2>1, <2>2 DEF DataInv
<1>17. CASE EndBusy
  BY <1>17 DEF EndBusy, DataInv
<1>18. CASE ReloadSwaps
  BY <1>18 DEF ReloadSwaps, DataInv
<1>19. CASE BeginCommand
  <2>1. UNCHANGED <<pool, fs, staleLoad, missed, cmd, again, removedDuringScan, needsFullRebuild>> /\ wpc' = "mark"
    BY <1>19 DEF BeginCommand
  <2>2. Trusted(cmd)'
    BY <1>19, <2>1 DEF Trusted, Current, Right
  <2> QED
    BY <2>1, <2>2 DEF DataInv
<1> QED
  BY <1>1, <1>2, <1>3, <1>4, <1>5, <1>6, <1>7, <1>8, <1>9, <1>10, <1>11, <1>12, <1>13, <1>14, <1>15, <1>16,
     <1>17, <1>18, <1>19 DEF Worker

-----------------------------------------------------------------------------
(* No existing file is listed twice.                                       *)

LEMMA ListedOnceInit == Init => ListedOnce
BY DEF Init, ListedOnce, PoolOf

LEMMA ListedOnceStep ==
    ASSUME TypeOK, TypeOK', WorkerInStep, DataInv', ListedOnce, [Next]_vars PROVE ListedOnce'
<1> SUFFICES ASSUME ~staleLoad', NEW p \in fs', RootOf[p] \notin missed' PROVE pool'[p] <= 1
  BY DEF ListedOnce
<1>0. p \in Paths /\ pool[p] \in Nat /\ pool'[p] \in Nat /\ staged[p] \in Nat
  BY DEF TypeOK, StoreTypeOK, WorkerTypeOK, Pool
<1>1. ASSUME staleLoad' = staleLoad, missed \subseteq missed', fs' \subseteq fs, pool'[p] <= pool[p]
      PROVE  pool'[p] <= 1
  BY <1>0, <1>1 DEF ListedOnce
<1>2. CASE FileOps
  BY <1>0, <1>1, <1>2, FileOpsData
<1>3. CASE UI
  BY <1>0, <1>1, <1>3, UIData
<1>4. CASE UNCHANGED vars
  BY <1>0, <1>1, <1>4 DEF vars, ghostVars, requestGhosts
<1>5. CASE Worker
  <2> USE DEF notWorker, ghostVars, requestGhosts
  <2>1. CASE \/ Take \/ WorkerExits \/ SkipCommand \/ BeginCommand \/ MarkScan \/ ReadFreshFile \/ RejectFile
             \/ ScanCancelled \/ Serialize \/ WriteFile \/ FinishScan \/ Complete \/ EndBusy \/ ReportIdle
             \/ BeginReload \/ ReloadReads \/ StopMonitoring \/ \E q \in Paths : Look(q)
    <3>1. UNCHANGED <<staleLoad, missed, fs, pool>>
      BY <2>1 DEF Take, WorkerExits, SkipCommand, BeginCommand, MarkScan, ReadFreshFile, RejectFile,
                  ScanCancelled, Serialize, WriteFile, FinishScan, Complete, EndBusy, ReportIdle,
                  BeginReload, ReloadReads, StopMonitoring, Look
    <3> QED
      BY <1>0, <1>1, <3>1
  <2>2. CASE SwapFile \/ ReloadSwaps
    <3>1. pool' = buf /\ fs' = fs /\ (Covers(buf, cmd.roots) \/ Covers(buf, settings))
      BY <2>2 DEF SwapFile, ReloadSwaps
    <3>2. \A roots : Covers(buf, roots) => buf[p] = PoolOf(Under(roots))[p]
      BY <3>1 DEF Covers
    <3>3. \A roots : PoolOf(Under(roots))[p] <= 1
      BY <1>0 DEF PoolOf
    <3> QED
      BY <3>1, <3>2, <3>3
  <2>3. ASSUME NEW q \in Paths, Emit(q) PROVE pool'[p] <= 1
    <3>1. wpc' = "scan" /\ mode' = mode /\ mode \in {"full", "add"}
      BY <2>3 DEF Emit, WorkerInStep
    <3>2. CASE mode = "full"
      BY <1>0, <1>1, <2>3, <3>2 DEF Emit
    <3>3. CASE mode = "add"
      <4>1. FoundBeside(pool)'
        BY <3>1, <3>3 DEF DataInv
      <4> QED
        BY <1>0, <4>1 DEF FoundBeside, Counted, One
    <3> QED
      BY <3>1, <3>2, <3>3
  <2>4. CASE ScanCompletes
    <3>1. CASE mode = "full"
      <4>1. pool' = staged /\ wpc = "scan"
        BY <2>4, <3>1 DEF ScanCompletes
      <4> QED
        BY <1>0, <4>1 DEF WorkerInStep
    <3>2. CASE mode # "full"
      BY <1>0, <1>1, <2>4, <3>2 DEF ScanCompletes
    <3> QED
      BY <3>1, <3>2
  <2>5. CASE PruneRoots
    <3>1. pool'[p] = IF RootOf[p] \in RemovedRoots(cmd) THEN 0 ELSE pool[p]
      BY <1>0, <2>5 DEF PruneRoots, RemovedUnder
    <3> QED
      BY <1>0, <1>1, <2>5, <3>1 DEF PruneRoots
  <2>6. ASSUME NEW q \in Paths, Reapply(q) PROVE pool'[p] <= 1
    <3>1. pool \in Pool /\ pool' = Removed(pool, q) /\ UNCHANGED <<staleLoad, missed, fs>>
      BY <2>6 DEF Reapply, TypeOK, StoreTypeOK
    <3>2. pool'[p] <= pool[p]
      BY <1>0, <3>1 DEF Removed, Pool
    <3> QED
      BY <1>1, <3>1, <3>2
  <2> QED
    BY <1>5, <2>1, <2>2, <2>3, <2>4, <2>5, <2>6 DEF Worker
<1> QED
  BY <1>2, <1>3, <1>4, <1>5 DEF Next, Rest

-----------------------------------------------------------------------------
(* The newest request is posted, queued, running or done.                  *)

LEMMA RequestInit == Init => RequestInv
<1> SUFFICES ASSUME Init PROVE IsDone
  BY DEF RequestInv
<1> QED
  BY DEF Init, IsDone, RestStates, Uses

\* A command that is started and has not been cancelled is the newest.
LEMMA StartedIsNewest ==
    ASSUME QueueInv, OthersCancelled, NewestLast, RequestInv, Runnable(cmd),
           wpc = "start" \/ wpc \in BusyStates
    PROVE  IsRunning
<1>1. posting = <<>> /\ commands = <<>>
  BY DEF NewestLast
<1>2. scanCancels = {cmd.id}
  BY OthersCancelledParts DEF Engaged, BusyStates, NewestOrCancelled, Runnable
<1>3. Up /\ ~elevated
  BY <1>2 DEF NewestLast
<1>4. ~IsDone
  BY DEF IsDone, RestStates, BusyStates
<1> QED
  BY <1>1, <1>3, <1>4 DEF RequestInv, IsPosted, IsQueued

LEMMA UnchangedCurrent ==
    ASSUME UNCHANGED <<pool, fs, staleLoad, missed>>, NEW roots PROVE Current(roots)' <=> Current(roots)
BY DEF Current, Right

\* Only a scan that is carried out makes up for the roots missed.
LEMMA WorkerGhosts ==
    ASSUME Worker PROVE asked' = asked /\ (~ScanCompletes => missed' = missed)
  BY DEF Worker, Take, WorkerExits, SkipCommand, BeginCommand, MarkScan, ReadFreshFile, RejectFile,
         SwapFile, ScanCompletes, ScanCancelled, PruneRoots, Serialize, WriteFile, FinishScan, Complete,
         EndBusy, ReportIdle, BeginReload, ReloadReads, ReloadSwaps, StopMonitoring, Look, Emit, Reapply,
         ghostVars, requestGhosts

\* A command at the head of the queue is ready when the worker gets to it.
LEMMA FollowsWorker ==
    ASSUME TypeOK, QueueInv, DataInv, Up, Worker, ~Take, NEW c, Follows(c)
    PROVE  Follows(c)'
<1> USE DEF notWorker, workVars, flagVars, ghostVars, requestGhosts, BusyStates, RestStates, uiVars, queueVars
<1>0. cancelled' = cancelled /\ missed' = missed
  <2>1. ~ScanCompletes
    BY DEF ScanCompletes, Follows, Before
  <2> QED
    BY <2>1, WorkerSteps, WorkerGhosts
<1>9. ASSUME cmd' = cmd, Before(cmd, c) PROVE Before(cmd, c)'
  BY <1>0, <1>9 DEF Before, Agree, IsCancelled
<1>1. ~WorkerExits
  BY DEF WorkerExits, QueueInv, Up
<1>2. CASE SkipCommand
  BY <1>2, <1>9 DEF SkipCommand, Follows
<1>3. ~BeginCommand /\ ~BeginReload /\ ~StopMonitoring
  BY DEF BeginCommand, BeginReload, StopMonitoring, Follows, Before, ScanKinds
<1>4. CASE Complete
  BY <1>4, <1>9 DEF Complete, Follows
<1>5. CASE EndBusy
  <2>1. /\ Agree(cmd.roots, c.old) /\ wpc' \in RestStates
        /\ UNCHANGED <<pool, fs, staleLoad, needsFullRebuild>>
    BY <1>5 DEF EndBusy, Follows, Before
  <2>2. needsFullRebuild \/ Current(cmd.roots)
    BY <1>5, <2>1 DEF EndBusy, DataInv
  <2>3. Current(cmd.roots) => Current(c.old)'
    BY <1>0, <2>1, CurrentMoves DEF Agree
  <2>4. Trusted(c)'
    BY <2>1, <2>2, <2>3 DEF Trusted
  <2> QED
    BY <2>1, <2>4 DEF Follows
<1>6. CASE ReportIdle
  <2>1. /\ Trusted(c) /\ wpc' \in RestStates
        /\ UNCHANGED <<pool, fs, staleLoad, needsFullRebuild>>
    BY <1>6 DEF ReportIdle, Follows
  <2>2. Trusted(c)'
    BY <1>0, <2>1, UnchangedCurrent DEF Trusted
  <2> QED
    BY <2>1, <2>2 DEF Follows
<1>7. CASE ScanStep
  BY <1>7, <1>9 DEF ScanStep, Follows
<1>8. ~ReloadStep
  BY DEF ReloadStep, Follows
<1> QED
  BY <1>1, <1>2, <1>3, <1>4, <1>5, <1>6, <1>7, <1>8, WorkerSteps

LEMMA ReadyTake ==
    ASSUME TypeOK, Take, NEW c, NEW k \in Nat, k + 1 \in 1..Len(commands), Ready(c, k + 1)
    PROVE  Ready(c, k)'
<1>0. UNCHANGED <<cancelled, missed>>
  BY DEF Take, notWorker, ghostVars, requestGhosts
<1>1. commands \in Seq(Command) /\ commands # <<>> /\ commands' = Tail(commands) /\ wpc' = "start"
  BY DEF Take, TypeOK, QueueTypeOK
<1>2. Len(commands) \in Nat /\ cmd' = commands[1] /\ \A i \in 1..(Len(commands) - 1) : commands'[i] = commands[i + 1]
  BY <1>1, TailEnds DEF Take
<1>3. CASE c.kind = "index"
  BY <1>3 DEF Ready
<1>4. CASE c.kind # "index"
  <2>1. Before(commands[k + 1], c)
    BY <1>2, <1>4 DEF Ready
  <2>2. CASE k = 0
    BY <1>0, <1>1, <1>2, <2>1, <2>2 DEF Ready, Follows, Before, Agree, IsCancelled
  <2>3. CASE k > 0
    <3>1. commands'[k] = commands[k + 1]
      BY <1>2, <2>3
    <3> QED
      BY <1>0, <2>1, <2>3, <3>1 DEF Ready, Before, Agree, IsCancelled
  <2> QED
    BY <2>2, <2>3
<1> QED
  BY <1>3, <1>4

\* What RequestInv depends on, and how much of it may change at any time.
LEMMA RequestFrame ==
    ASSUME RequestInv, \A roots : Current(roots) => Current(roots)', used'["request"] = used["request"],
           UNCHANGED <<ui, elevated, posting, commands, cancelled, wpc, cmd, needsFullRebuild, monitored,
                       asked, missed>>
    PROVE  RequestInv'
<1>1. \A c : Trusted(c) => Trusted(c)'
  BY DEF Trusted
<1>2. \A c, d : Before(d, c) => Before(d, c)'
  BY DEF Before, Agree, IsCancelled
<1>3. \A c, n : Ready(c, n) => Ready(c, n)'
  BY <1>1, <1>2 DEF Ready, Follows
<1>4. \A c : Newest(c) => Newest(c)'
  BY DEF Newest, IsCancelled
<1>5. IsPosted => IsPosted'
  BY <1>3, <1>4 DEF IsPosted
<1>6. IsQueued => IsQueued'
  BY <1>3, <1>4 DEF IsQueued
<1>7. IsRunning => IsRunning'
  BY <1>1, <1>4 DEF IsRunning
<1>8. IsDone => IsDone'
  BY DEF IsDone
<1> QED
  BY <1>5, <1>6, <1>7, <1>8 DEF RequestInv, Up

LEMMA RequestWorker ==
    ASSUME TypeOK, QueueInv, NewestLast, RunInv, DataInv, RequestInv, Worker, Up', ~elevated'
    PROVE  IsPosted' \/ IsQueued' \/ IsRunning' \/ IsDone'
<1> USE DEF notWorker, uiVars, workVars, flagVars, ghostVars, requestGhosts, BusyStates, RestStates
<1>0. /\ commands \in Seq(Command) /\ posting \in Seq(Command)
      /\ Len(commands) \in Nat
  BY LenProperties DEF TypeOK, QueueTypeOK
<1>1. UNCHANGED <<ui, elevated, used, posting, cancelled, asked>>
  BY WorkerSteps, WorkerGhosts
<1>2. Up /\ ~elevated /\ (IsPosted \/ IsQueued \/ IsRunning \/ IsDone)
  BY <1>1 DEF RequestInv, Up
<1>3. \A c : Newest(c) => Newest(c)'
  BY <1>1 DEF Newest, IsCancelled
<1>4. CASE Take
  <2>1. /\ wpc = "idle" /\ wpc' = "start" /\ commands # <<>> /\ commands' = Tail(commands)
        /\ UNCHANGED <<needsFullRebuild, pool, fs, staleLoad, missed>>
    BY <1>4 DEF Take
  <2>2. /\ Len(commands) \in Nat \ {0} /\ Len(commands') = Len(commands) - 1 /\ cmd' = commands[1]
        /\ Len(commands) = 1 <=> commands' = <<>>
        /\ \A i \in 1..(Len(commands) - 1) : commands'[i] = commands[i + 1]
    BY <1>0, <1>4, <2>1, TailEnds DEF Take
  <2>3. CASE IsPosted
    <3>1. PICK k \in Nat : k + 1 = Len(commands)
      BY <2>2
    <3>2. Ready(posting[1], k + 1) /\ Newest(posting[1]) /\ posting # <<>>
      BY <2>3, <3>1 DEF IsPosted
    <3>3. \A d : Ready(d, k + 1) => Ready(d, k)'
      BY <1>4, <3>1, ReadyTake
    <3>4. Len(commands') = k
      BY <2>2, <3>1
    <3> QED
      BY <1>1, <1>3, <3>2, <3>3, <3>4 DEF IsPosted
  <2>4. CASE IsQueued /\ Len(commands) = 1
    <3>1. Newest(commands[1]) /\ Ready(commands[1], 0) /\ posting = <<>> /\ commands' = <<>>
      BY <2>2, <2>4 DEF IsQueued
    <3>2. Trusted(cmd)'
      <4>1. Trusted(commands[1])
        BY <2>1, <3>1 DEF Ready, Follows, Trusted
      <4> QED
        BY <2>1, <2>2, <4>1, UnchangedCurrent DEF Trusted
    <3>3. Newest(cmd)'
      BY <1>3, <2>2, <3>1
    <3> QED
      BY <1>1, <2>1, <3>1, <3>2, <3>3 DEF IsRunning
  <2>5. CASE IsQueued /\ Len(commands) # 1
    <3>1. PICK k \in Nat : k + 2 = Len(commands)
      BY <2>2, <2>5
    <3>2. commands'[k + 1] = commands[Len(commands)] /\ Len(commands') = k + 1 /\ commands' # <<>>
      BY <2>2, <2>5, <3>1
    <3>3. Newest(commands[Len(commands)]) /\ Ready(commands[Len(commands)], k + 1) /\ posting = <<>>
      BY <2>5, <3>1 DEF IsQueued
    <3>4. \A d : Ready(d, k + 1) => Ready(d, k)'
      BY <1>4, <2>2, <3>1, ReadyTake
    <3>5. \A d : d = commands[Len(commands)] => Newest(d)' /\ Ready(d, k)'
      BY <1>3, <3>3, <3>4
    <3>6. Len(commands') - 1 = k /\ commands'[Len(commands')] = commands[Len(commands)]
      BY <3>2
    <3>7. Newest(commands[Len(commands)])'
      BY <3>5, <3>6
    <3>8. Ready(commands[Len(commands)], Len(commands) - 1)'
      BY <3>5, <3>6
    <3> QED
      BY <1>1, <3>2, <3>3, <3>7, <3>8 DEF IsQueued
  <2>6. ~IsRunning /\ ~IsDone
    BY <2>1 DEF IsRunning, IsDone
  <2> QED
    BY <1>2, <2>3, <2>4, <2>5, <2>6
<1>5. CASE ~Take
  <2>1. UNCHANGED commands
    BY <1>5, WorkerSteps DEF WorkerExits, SkipCommand, BeginCommand, Complete, EndBusy, ReportIdle, BeginReload,
                             StopMonitoring, ScanStep, ReloadStep, notQueue
  <2>2. \A c : Follows(c) => Follows(c)'
    BY <1>2, <1>5, FollowsWorker
  <2>3. ASSUME posting # <<>> \/ commands # <<>> PROVE \A c, n : Ready(c, n) => Ready(c, n)'
    <3>1. ~ScanCompletes
      BY <2>3 DEF ScanCompletes, NewestLast, Runnable, QueueInv, IsScan, ScanKinds
    <3>2. missed' = missed
      BY <3>1, WorkerGhosts
    <3> QED
      BY <1>1, <2>1, <2>2, <3>2 DEF Ready, Before, Agree, IsCancelled
  <2>4. CASE IsPosted
    BY <1>1, <1>3, <2>1, <2>3, <2>4 DEF IsPosted
  <2>5. CASE IsQueued
    BY <1>1, <1>3, <2>1, <2>3, <2>5 DEF IsQueued
  <2>6. CASE IsRunning
    <3>1. posting' = <<>> /\ commands' = <<>> /\ Newest(cmd) /\ ~IsCancelled(cmd) /\ cmd.kind \in ScanKinds
      BY <1>1, <2>1, <2>6 DEF IsRunning, Newest
    <3>2. ~WorkerExits /\ ~SkipCommand /\ ~ReportIdle /\ ~BeginReload /\ ~StopMonitoring /\ ~ReloadStep
      BY <2>6, <3>1 DEF IsRunning, WorkerExits, SkipCommand, ReportIdle, BeginReload, StopMonitoring, ReloadStep,
                        ScanKinds
    <3>3. CASE BeginCommand
      BY <1>3, <3>1, <3>3 DEF BeginCommand, IsRunning
    <3>4. CASE Complete
      BY <1>3, <3>1, <3>4 DEF Complete, IsRunning
    <3>5. CASE ScanStep
      BY <1>3, <3>1, <3>5 DEF ScanStep, IsRunning
    <3>6. CASE EndBusy
      <4>1. ~needsFullRebuild /\ monitored = cmd.roots /\ cmd.roots = asked /\ Current(cmd.roots)
        BY <3>1, <3>6 DEF EndBusy, RunInv, DataInv, Newest
      <4>2. wpc' \in RestStates /\ UNCHANGED <<monitored, pool, fs, staleLoad, missed>>
        BY <3>6 DEF EndBusy
      <4>3. Current(asked)'
        BY <1>1, <4>1, <4>2, UnchangedCurrent DEF Current
      <4> QED
        BY <1>1, <3>1, <4>1, <4>2, <4>3 DEF IsDone
    <3> QED
      BY <1>5, <3>2, <3>3, <3>4, <3>5, <3>6, WorkerSteps
  <2>7. CASE IsDone
    <3>1. ReportIdle \/ WorkerExits
      BY <1>5, <2>7, WorkerSteps DEF IsDone, SkipCommand, BeginCommand, Complete, EndBusy, BeginReload,
                                     StopMonitoring, ScanStep, ReloadStep
    <3>2. ~WorkerExits
      BY <1>2 DEF WorkerExits, QueueInv, Up
    <3>3. wpc' = "idle" /\ UNCHANGED <<monitored, pool, fs, staleLoad, missed>>
      BY <3>1, <3>2 DEF ReportIdle
    <3>4. Current(asked) => Current(asked)'
      BY <1>1, <3>3 DEF Current, Right
    <3> QED
      BY <1>1, <2>1, <2>7, <3>3, <3>4 DEF IsDone
  <2> QED
    BY <1>2, <2>4, <2>5, <2>6, <2>7
<1> QED
  BY <1>4, <1>5

\* A request takes the place of the one before it.
LEMMA RequestRequest ==
    ASSUME TypeOK, QueueInv, OthersCancelled, RequestInv, NEW c, Request(c)
    PROVE  RequestInv'
<1>1. /\ posting = <<>> /\ posting' = <<c>> /\ posting' # <<>> /\ posting'[1] = c /\ Up
      /\ UNCHANGED <<commands, wpc, cmd, needsFullRebuild, monitored, pool, fs, staleLoad>>
      /\ cancelled' = cancelled \cup scanCancels /\ missed \subseteq missed'
      /\ c.kind = "index" \/ c.kind = "settings"
  BY PostedOne DEF Request, ScanKinds, CanPost, Supersede, notUI, workVars, flagVars, storeGhosts, Up
<1>2. Newest(c)'
  BY DEF Request, Newest, IsCancelled, QueueInv, TypeOK, QueueTypeOK, Uses, Supersede
<1>3. Len(commands) \in Nat /\ (Len(commands) = 0 <=> commands = <<>>) /\ DOMAIN commands = 1..Len(commands)
  BY EmptySeq, LenProperties DEF TypeOK, QueueTypeOK
<1>4. ASSUME c.kind # "index" PROVE Ready(c, Len(commands))'
  <2>1. /\ c.kind = "settings" /\ used["request"] > 0
        /\ \A r \in Roots \ missed' : r \in asked <=> r \in c.old
        /\ IsQueued \/ IsRunning \/ IsDone
    BY <1>1, <1>4 DEF Request, RequestInv, IsPosted
  <2>2. \A d : Newest(d) /\ scanCancels = {d.id} => Before(d, c)'
    BY <1>1, <2>1 DEF Newest, Before, Agree, IsCancelled
  <2>3. CASE IsQueued
    <3>1. Len(commands) > 0 /\ Len(commands) \in DOMAIN commands /\ Newest(commands[Len(commands)])
      BY <1>3, <2>3 DEF IsQueued
    <3>2. scanCancels = {commands[Len(commands)].id}
      BY <3>1, OthersCancelledParts DEF Newest, NewestOrCancelled
    <3> QED
      BY <1>1, <2>2, <3>1, <3>2 DEF Ready
  <2>4. CASE IsRunning
    <3>1. Newest(cmd) /\ commands = <<>> /\ wpc \in BusyStates \cup {"start"}
      BY <2>4 DEF IsRunning, Newest
    <3>2. scanCancels = {cmd.id}
      BY <3>1, OthersCancelledParts DEF Newest, NewestOrCancelled, Engaged, BusyStates
    <3>3. Follows(c)'
      BY <1>1, <2>1, <2>2, <3>1, <3>2 DEF Follows
    <3> QED
      BY <1>1, <1>3, <3>1, <3>3 DEF Ready
  <2>5. CASE IsDone
    <3>1. wpc \in RestStates /\ commands = <<>> /\ Current(asked)
      BY <2>1, <2>5 DEF IsDone
    <3>2. Current(c.old)'
      BY <1>1, <2>1, <3>1, CurrentMoves
    <3>3. Follows(c)'
      BY <1>1, <3>1, <3>2 DEF Follows, Trusted
    <3> QED
      BY <1>1, <1>3, <3>1, <3>3 DEF Ready
  <2> QED
    BY <2>1, <2>3, <2>4, <2>5
<1>5. Ready(c, Len(commands))'
  BY <1>4 DEF Ready
<1>6. IsPosted'
  BY <1>1, <1>2, <1>5 DEF IsPosted
<1> QED
  BY <1>6 DEF RequestInv

LEMMA RequestEnqueue == ASSUME TypeOK, QueueInv, RequestInv, Enqueue PROVE RequestInv'
<1> USE DEF uiVars, notUI, workVars, flagVars, requestGhosts, storeGhosts
<1>1. /\ posting # <<>> /\ posting' = <<>> /\ UNCHANGED <<ui, elevated, asked, cancelled, wpc, cmd>>
      /\ UNCHANGED <<needsFullRebuild, pool, fs, staleLoad, missed>>
  BY DEF Enqueue
<1>2. /\ commands \in Seq(Command) /\ posting \in Seq(Command)
      /\ Head(posting) = posting[1] /\ posting[1] \in Command
  BY <1>1, TailEnds DEF TypeOK, QueueTypeOK
<1>3. /\ Len(commands') = Len(commands) + 1 /\ Len(commands) \in Nat /\ commands' # <<>>
      /\ commands'[Len(commands')] = posting[1]
      /\ \A i \in 1..Len(commands) : commands'[i] = commands[i]
  BY <1>2, AppendEnds DEF Enqueue
<1>4. \A c : Follows(c) => Follows(c)'
  <2>1. \A c : Trusted(c) => Trusted(c)'
    BY <1>1, UnchangedCurrent DEF Trusted
  <2> QED
    BY <1>1, <2>1 DEF Follows, Before, Agree, IsCancelled
<1>5. \A c, k : k = Len(commands) /\ Ready(c, k) => Ready(c, k)'
  <2>1. Len(commands) > 0 => commands'[Len(commands)] = commands[Len(commands)]
    BY <1>3
  <2> QED
    BY <1>1, <1>4, <2>1 DEF Ready, Before, Agree, IsCancelled
<1>6. \A c : Newest(c) => Newest(c)'
  BY <1>1 DEF Newest, IsCancelled
<1>7. ASSUME IsPosted PROVE IsQueued'
  <2>1. Len(commands') - 1 = Len(commands)
    BY <1>3
  <2>2. \A k : k = Len(commands) => Ready(posting[1], k)
    BY <1>7 DEF IsPosted
  <2>3. \A k, c : k = Len(commands) /\ c = posting[1] => Ready(c, k)'
    BY <1>5, <2>2
  <2> QED
    BY <1>1, <1>3, <1>6, <1>7, <2>1, <2>3 DEF IsPosted, IsQueued
<1>8. ~IsQueued /\ ~IsRunning /\ ~IsDone
  BY <1>1 DEF IsQueued, IsRunning, IsDone
<1> QED
  BY <1>1, <1>7, <1>8 DEF RequestInv, Up

LEMMA RequestStep ==
    ASSUME TypeOK, TypeOK', WorkerInStep, QueueInv, OthersCancelled, NewestLast, RunInv, DataInv, RequestInv,
           [Next]_vars
    PROVE  RequestInv'
<1> USE DEF uiVars, queueVars, workVars, flagVars, ghostVars, requestGhosts, storeGhosts
<1>1. CASE Worker
  BY <1>1, RequestWorker DEF RequestInv
<1>2. CASE FileOps
  <2>1. \A roots : Current(roots) => Current(roots)'
    BY <1>2, FileOpsData, CurrentStays
  <2>2. UNCHANGED <<notFileOps, asked, missed>>
    BY <1>2, FileOpsData
  <2> QED
    BY <2>1, <2>2, RequestFrame DEF notFileOps
<1>3. CASE UNCHANGED vars
  BY <1>3, RequestFrame, UnchangedCurrent DEF vars
<1>4. CASE UI
  <2>1. CASE \E c : Request(c)
    BY <2>1, RequestRequest
  <2>4. CASE Elevate \/ RequestReload
    <3>1. elevated'
      BY <2>4 DEF Elevate, RequestReload
    <3> QED
      BY <3>1 DEF RequestInv
  <2>5. CASE Enqueue
    BY <2>5, RequestEnqueue
  <2>6. CASE Shutdown \/ JoinWorker \/ JoinFileOps
    <3>1. ~Up'
      BY <2>6 DEF Shutdown, JoinWorker, JoinFileOps, Up
    <3> QED
      BY <3>1 DEF RequestInv
  <2>7. CASE HelperSaves \/ Unposted \/ \E S \in SUBSET Paths \ {{}} : RequestFileOperations(S)
    <3>1. used'["request"] = used["request"]
      <4>1. \A use \in {"save", "batch", "refuse"} : Spend(use) => used'["request"] = used["request"]
        BY DEF Spend, TypeOK, QueueTypeOK, Uses
      <4> QED
        BY <2>7, <4>1 DEF HelperSaves, HelperSave, Unposted, ChangeUnposted, RequestFileOperations
    <3>2. UNCHANGED <<ui, elevated, posting, commands, cancelled, wpc, cmd, needsFullRebuild, monitored, pool, fs,
                      staleLoad, asked, missed>>
      <4>1. ASSUME NEW roots \in SUBSET Roots, HelperSave(roots) \/ ChangeUnposted(roots)
            PROVE  UNCHANGED <<ui, elevated, posting, commands, cancelled, wpc, cmd, needsFullRebuild, monitored,
                               pool, fs, staleLoad, asked, missed>>
        BY <4>1 DEF HelperSave, ChangeUnposted, notUI
      <4> QED
        BY <2>7, <4>1 DEF HelperSaves, Unposted, RequestFileOperations
    <3> QED
      BY <3>1, <3>2, RequestFrame, UnchangedCurrent
  <2> QED
    BY <1>4, <2>1, <2>4, <2>5, <2>6, <2>7, UISteps
<1> QED
  BY <1>1, <1>2, <1>3, <1>4 DEF Next, Rest

-----------------------------------------------------------------------------
(* Once the helper has taken over, monitoring stops.                       *)

LEMMA HelperInit == Init => HelperInv
BY DEF Init, HelperInv

LEMMA HelperWorker ==
    ASSUME TypeOK, QueueInv, HelperInv, Worker, Up', elevated' PROVE HelperInv'
<1> USE DEF notWorker, uiVars, workVars, flagVars, BusyStates, RestStates
<1>0. UNCHANGED <<ui, elevated, posting>> /\ commands \in Seq(Command)
  BY WorkerSteps DEF TypeOK, QueueTypeOK
<1>1. Up /\ elevated
  BY <1>0 DEF Up
<1>2. CASE posting # <<>> /\ posting[1].kind = "stop"
  BY <1>0, <1>2 DEF HelperInv
<1>3. CASE Take
  <2>1. /\ wpc = "idle" /\ wpc' = "start" /\ cmd' = commands[1] /\ Len(commands) \in Nat \ {0}
        /\ Len(commands') = Len(commands) - 1 /\ UNCHANGED monitored
        /\ \A i \in 1..(Len(commands) - 1) : commands'[i] = commands[i + 1]
    BY <1>0, <1>3, TailEnds DEF Take
  <2>2. CASE StopQueued /\ OnlyReloads(posting)
    <3>1. PICK k \in 1..Len(commands) :
              /\ commands[k].kind = "stop"
              /\ \A j \in 1..Len(commands) : j > k => commands[j].kind = "reload"
      BY <2>2 DEF StopQueued
    <3>2. \A j \in 1..Len(commands') : j + 1 \in 1..Len(commands) /\ commands'[j] = commands[j + 1]
      BY <2>1
    <3>3. CASE k = 1
      <4>1. \A j \in 1..Len(commands') : commands'[j].kind = "reload"
        BY <3>1, <3>2, <3>3
      <4> QED
        BY <1>0, <2>1, <2>2, <3>1, <3>3, <4>1 DEF HelperInv, OnlyReloads
    <3>4. CASE k # 1
      <4>1. /\ k - 1 \in 1..Len(commands') /\ commands'[k - 1].kind = "stop"
            /\ \A j \in 1..Len(commands') : j > k - 1 => commands'[j].kind = "reload"
        BY <2>1, <3>1, <3>2, <3>4
      <4>2. StopQueued'
        BY <4>1 DEF StopQueued
      <4> QED
        BY <1>0, <2>2, <4>2 DEF HelperInv, OnlyReloads
    <3> QED
      BY <3>3, <3>4
  <2>3. CASE monitored = {} /\ OnlyReloads(commands) /\ OnlyReloads(posting)
    <3>1. cmd'.kind = "reload" /\ OnlyReloads(commands')
      BY <2>1, <2>3 DEF OnlyReloads
    <3> QED
      BY <1>0, <2>1, <2>3, <3>1 DEF HelperInv, OnlyReloads
  <2> QED
    BY <1>1, <1>2, <2>1, <2>2, <2>3 DEF HelperInv
<1>4. CASE ~Take
  <2>1. UNCHANGED commands
    BY <1>4, WorkerSteps DEF WorkerExits, SkipCommand, BeginCommand, Complete, EndBusy, ReportIdle, BeginReload,
                             StopMonitoring, ScanStep, ReloadStep, notQueue
  <2>2. CASE StopQueued /\ OnlyReloads(posting)
    BY <1>0, <2>1, <2>2 DEF HelperInv, StopQueued, OnlyReloads
  <2>3. CASE wpc = "start" /\ cmd.kind = "stop" /\ OnlyReloads(commands) /\ OnlyReloads(posting)
    <3>1. StopMonitoring
      BY <1>4, <2>3, WorkerSteps DEF WorkerExits, SkipCommand, BeginCommand, Complete, EndBusy, ReportIdle,
                                     BeginReload, ScanStep, ReloadStep, IsScan
    <3> QED
      BY <1>0, <2>1, <2>3, <3>1 DEF StopMonitoring, HelperInv, OnlyReloads
  <2>4. CASE /\ monitored = {} /\ OnlyReloads(commands) /\ OnlyReloads(posting)
             /\ wpc \in RestStates \cup {"reload", "reloadSwap"} \/ (wpc = "start" /\ cmd.kind = "reload")
    <3>1. WorkerExits \/ ReportIdle \/ BeginReload \/ ReloadStep
      BY <1>4, <2>4, WorkerSteps DEF SkipCommand, BeginCommand, Complete, EndBusy, StopMonitoring, ScanStep, IsScan
    <3>2. ~WorkerExits
      BY <1>1 DEF WorkerExits, QueueInv, Up
    <3>3. monitored' = {} /\ wpc' \in RestStates \cup {"reload", "reloadSwap"}
      BY <2>4, <3>1, <3>2 DEF ReportIdle, BeginReload, ReloadStep
    <3>4. OnlyReloads(commands)' /\ OnlyReloads(posting)'
      BY <1>0, <2>1, <2>4 DEF OnlyReloads
    <3> QED
      BY <3>3, <3>4 DEF HelperInv
  <2> QED
    BY <1>1, <1>2, <2>2, <2>3, <2>4 DEF HelperInv
<1> QED
  BY <1>3, <1>4

LEMMA HelperFrame ==
    ASSUME HelperInv, UNCHANGED <<ui, elevated, posting, commands, wpc, cmd, monitored>> PROVE HelperInv'
<1>1. StopQueued => StopQueued'
  BY DEF StopQueued
<1>2. (OnlyReloads(commands) => OnlyReloads(commands)') /\ (OnlyReloads(posting) => OnlyReloads(posting)')
  BY DEF OnlyReloads
<1> QED
  BY <1>1, <1>2 DEF HelperInv, Up

LEMMA HelperUI ==
    ASSUME TypeOK, QueueInv, HelperInv, UI, Up', elevated' PROVE HelperInv'
<1> USE DEF uiVars, queueVars, notUI, workVars, flagVars
<1>0. commands \in Seq(Command) /\ posting \in Seq(Command)
  BY DEF TypeOK, QueueTypeOK
<1>1. ~\E c : Request(c)
  BY DEF Request
<1>2. CASE Elevate
  <2>1. posting' # <<>> /\ posting'[1].kind = "stop"
    BY <1>2, PostedOne DEF Elevate, Plain
  <2> QED
    BY <2>1 DEF HelperInv
<1>3. CASE RequestReload
  <2>1. posting = <<>> /\ UNCHANGED <<ui, elevated, commands, wpc, cmd, monitored>> /\ Up /\ elevated
    BY <1>3 DEF RequestReload, CanPost, Up
  <2>2. OnlyReloads(posting)'
    <3>1. CASE posting' = <<>>
      BY <3>1, PostedOne DEF OnlyReloads
    <3>2. CASE posting' = <<Plain("reload")>>
      <4>1. Len(posting') = 1 /\ posting'[1].kind = "reload"
        BY <3>2, PostedOne DEF Plain
      <4> QED
        BY <4>1 DEF OnlyReloads
    <3> QED
      BY <1>3, <3>1, <3>2 DEF RequestReload
  <2>3. (StopQueued => StopQueued') /\ (OnlyReloads(commands) => OnlyReloads(commands)')
    BY <2>1 DEF StopQueued, OnlyReloads
  <2> QED
    BY <2>1, <2>2, <2>3 DEF HelperInv
<1>4. CASE Enqueue
  <2>1. /\ posting # <<>> /\ posting' = <<>> /\ UNCHANGED <<ui, elevated, wpc, cmd, monitored>> /\ Up /\ elevated
    BY <1>4 DEF Enqueue, Up
  <2>2. /\ Head(posting) = posting[1] /\ posting[1] \in Command /\ 1 \in 1..Len(posting)
    BY <1>0, <2>1, TailEnds
  <2>3. /\ Len(commands') = Len(commands) + 1 /\ Len(commands) \in Nat
        /\ commands'[Len(commands) + 1] = posting[1]
        /\ \A i \in 1..Len(commands) : commands'[i] = commands[i]
    BY <1>0, <1>4, <2>2, AppendEnds DEF Enqueue
  <2>4. \A i \in 1..Len(commands') : i \in 1..Len(commands) \/ i = Len(commands) + 1
    BY <2>3
  <2>5. OnlyReloads(posting)'
    BY <2>1, PostedOne DEF OnlyReloads
  <2>6. OnlyReloads(posting) => posting[1].kind = "reload"
    BY <2>2 DEF OnlyReloads
  <2>7. OnlyReloads(commands) /\ OnlyReloads(posting) => OnlyReloads(commands)'
    BY <2>3, <2>4, <2>6 DEF OnlyReloads
  <2>8. ASSUME posting[1].kind = "stop" PROVE StopQueued'
    <3>1. Len(commands) + 1 \in 1..Len(commands') /\ \A j \in 1..Len(commands') : ~(j > Len(commands) + 1)
      BY <2>3
    <3>2. commands'[Len(commands) + 1].kind = "stop"
      BY <2>3, <2>8
    <3> QED
      BY <3>1, <3>2 DEF StopQueued
  <2>9. ASSUME StopQueued, OnlyReloads(posting) PROVE StopQueued'
    <3>1. PICK k \in 1..Len(commands) :
              /\ commands[k].kind = "stop"
              /\ \A j \in 1..Len(commands) : j > k => commands[j].kind = "reload"
      BY <2>9 DEF StopQueued
    <3>2. k \in 1..Len(commands') /\ commands'[k].kind = "stop"
      BY <2>3, <3>1
    <3>3. \A j \in 1..Len(commands') : j > k => commands'[j].kind = "reload"
      BY <2>3, <2>4, <2>6, <2>9, <3>1
    <3> QED
      BY <3>2, <3>3 DEF StopQueued
  <2> QED
    BY <2>1, <2>5, <2>7, <2>8, <2>9 DEF HelperInv
<1>5. ~Shutdown /\ ~JoinWorker
  BY DEF Shutdown, JoinWorker, Up
<1>6. CASE JoinFileOps \/ HelperSaves \/ Unposted \/ \E S \in SUBSET Paths \ {{}} : RequestFileOperations(S)
  <2>1. UNCHANGED <<ui, elevated, posting, commands, wpc, cmd, monitored>>
    <3>1. ~JoinFileOps
      BY DEF JoinFileOps, Up
    <3> QED
      BY <1>6, <3>1 DEF HelperSaves, HelperSave, Unposted, ChangeUnposted, RequestFileOperations
  <2> QED
    BY <2>1, HelperFrame
<1> QED
  BY <1>1, <1>2, <1>3, <1>4, <1>5, <1>6, UISteps

LEMMA HelperStep == TypeOK /\ QueueInv /\ HelperInv /\ [Next]_vars => HelperInv'
<1> SUFFICES ASSUME TypeOK, QueueInv, HelperInv, [Next]_vars, Up', elevated' PROVE HelperInv'
  BY DEF HelperInv
<1>1. CASE FileOps
  BY <1>1, FileOpsSteps, HelperFrame DEF notFileOps, uiVars, queueVars, workVars, flagVars
<1>2. CASE UNCHANGED vars
  BY <1>2, HelperFrame DEF vars, uiVars, queueVars, workVars, flagVars
<1> QED
  BY <1>1, <1>2, HelperWorker, HelperUI DEF Next, Rest

-----------------------------------------------------------------------------
(* No change of the index goes unreported.                                 *)

LEMMA ViewInit == Init => ViewInv
BY DEF Init, ViewInv

LEMMA ViewWorker ==
    ASSUME QueueInv, RunInv, RequestInv, ViewInv, Worker PROVE ViewInv'
<1> USE DEF notWorker, uiVars, workVars, flagVars, fopVars, ghostVars, requestGhosts, storeGhosts, BusyStates, RestStates
<1>0. UNCHANGED <<ui, elevated, posting, cancelled, fpc, succeeded>>
  BY WorkerSteps
<1> SUFFICES ASSUME Up', ~elevated', posting' = <<>>, commands' = <<>>, wpc' \in RestStates \cup {"endBusy"}, unseen'
             PROVE  succeeded
  BY <1>0 DEF ViewInv
<1>1. Up /\ ~elevated /\ posting = <<>>
  BY <1>0 DEF Up
<1>2. ~Take /\ ~WorkerExits
  BY DEF Take, WorkerExits
<1>3. commands = <<>>
  BY <1>2, WorkerSteps DEF SkipCommand, BeginCommand, Complete, EndBusy, ReportIdle, BeginReload, StopMonitoring,
                           ScanStep, ReloadStep, notQueue
<1>4. IsRunning \/ IsDone
  BY <1>1, <1>3 DEF RequestInv, IsPosted, IsQueued
<1>5. ~SkipCommand
  BY <1>4 DEF SkipCommand, IsRunning, IsDone, Newest
<1>6. ~StopMonitoring /\ ~ReloadStep /\ ~BeginCommand /\ ~BeginReload
  BY <1>4 DEF StopMonitoring, ReloadStep, BeginCommand, BeginReload, IsRunning, IsDone, Newest, ScanKinds
<1>7. ~ScanStep
  BY DEF ScanStep
<1>8. ~Complete
  <2>1. ASSUME Complete PROVE FALSE
    <3>1. wpc = "complete" /\ completed /\ IsRunning
      BY <1>4, <2>1 DEF Complete, RunInv, IsRunning, IsDone, Newest
    <3> QED
      BY <2>1, <3>1 DEF Complete
  <2> QED
    BY <2>1
<1>9. EndBusy \/ ReportIdle
  BY <1>2, <1>5, <1>6, <1>7, <1>8, WorkerSteps
<1> QED
  BY <1>1, <1>3, <1>9 DEF EndBusy, ReportIdle, ViewInv

LEMMA ViewFileOps == ASSUME TypeOK, ViewInv, FileOps PROVE ViewInv'
<1> USE DEF notFileOps, uiVars, queueVars, scanVars, ghostVars, requestGhosts
<1>1. CASE TakeBatch \/ FileOpsExit \/ Record
  BY <1>1 DEF TakeBatch, FileOpsExit, Record, ViewInv, Up
<1>2. ASSUME NEW p \in Paths, Operate(p) PROVE ViewInv'
  BY <1>2 DEF Operate, ViewInv, Up
<1>3. CASE Apply
  BY <1>3 DEF Apply, ViewInv, Up
<1>4. CASE ReportBatch
  BY <1>4 DEF ReportBatch, ViewInv, Up
<1> QED
  BY <1>1, <1>2, <1>3, <1>4 DEF FileOps

LEMMA ViewUI == ASSUME TypeOK, ViewInv, UI PROVE ViewInv'
<1> USE DEF notUI, uiVars, queueVars, fopVars, ghostVars, storeGhosts
<1>1. UNCHANGED <<fpc, succeeded, unseen, wpc>>
  <2>1. CASE \E c : Request(c)
    BY <2>1 DEF Request, Supersede
  <2>2. CASE Elevate \/ RequestReload \/ Enqueue \/ Shutdown \/ JoinWorker \/ JoinFileOps
    BY <2>2 DEF Elevate, RequestReload, Enqueue, Shutdown, JoinWorker, JoinFileOps
  <2>3. CASE HelperSaves \/ \E S \in SUBSET Paths \ {{}} : RequestFileOperations(S)
    BY <2>3 DEF HelperSaves, HelperSave, RequestFileOperations
  <2>4. CASE Unposted
    BY <2>4 DEF Unposted, ChangeUnposted
  <2> QED
    BY <2>1, <2>2, <2>3, <2>4, UISteps
<1> SUFFICES ASSUME Up', ~elevated', posting' = <<>>, commands' = <<>> PROVE ViewInv'
  BY <1>1 DEF ViewInv
<1>2. ~(\E c : Request(c)) /\ ~Elevate /\ ~RequestReload /\ ~Shutdown /\ ~JoinWorker /\ ~JoinFileOps
  BY PostedOne DEF Request, Supersede, Elevate, RequestReload, Shutdown, JoinWorker, JoinFileOps, Up
<1>3. ~Enqueue
  <2>1. ASSUME Enqueue PROVE commands' # <<>>
    BY <2>1, TailEnds, AppendEnds DEF Enqueue, TypeOK, QueueTypeOK
  <2> QED
    BY <2>1
<1>4. UNCHANGED <<ui, elevated, posting, commands>>
  BY <1>2, <1>3, UISteps DEF HelperSaves, HelperSave, Unposted, ChangeUnposted, RequestFileOperations
<1> QED
  BY <1>1, <1>4 DEF ViewInv, Up

LEMMA ViewStep ==
    ASSUME TypeOK, QueueInv, RunInv, RequestInv, ViewInv, [Next]_vars PROVE ViewInv'
<1>1. CASE UNCHANGED vars
  BY <1>1 DEF vars, uiVars, queueVars, fopVars, ghostVars, ViewInv, Up
<1> QED
  BY <1>1, ViewWorker, ViewFileOps, ViewUI DEF Next, Rest

-----------------------------------------------------------------------------
(* The invariant, and the properties that follow from it.                  *)

QueueSide == QueueInv /\ CoalescedReloadIsPending /\ OthersCancelled /\ NewestLast /\ BusyInv

WorkSide == RunInv /\ DataInv /\ ListedOnce /\ RequestInv /\ HelperInv /\ ViewInv

IInv == RemovalInv /\ QueueSide /\ WorkSide

LEMMA Initially == Init => IInv
BY RemovalInit, QueueInit, CoalescedInit, OthersCancelledInit, NewestLastInit, BusyInit, RunInit, DataInit, ListedOnceInit,
   RequestInit, HelperInit, ViewInit DEF IInv, QueueSide, WorkSide

LEMMA Inductively == IInv /\ [Next]_vars => IInv'
<1> SUFFICES ASSUME IInv, [Next]_vars PROVE IInv'
  OBVIOUS
<1>1. TypeOK /\ WorkerInStep /\ QueueSide /\ WorkSide
  BY DEF IInv, RemovalInv
<1>2. RemovalInv' /\ TypeOK'
  BY RemovalStep, TypeStep DEF IInv, RemovalInv
<1>3. QueueSide'
  <2>1. QueueInv'
    BY <1>1, QueueStep DEF QueueSide
  <2> QED
    BY <1>1, <2>1, CoalescedStep, OthersCancelledStep, NewestLastStep, BusyStep DEF QueueSide
<1>4. DataInv'
  <2>1. CASE Worker
    <3>1. BeginCommand => Trusted(cmd)
      <4>1. ASSUME BeginCommand PROVE Trusted(cmd)
        <5>1. wpc = "start" /\ Runnable(cmd)
          BY <4>1 DEF BeginCommand, Runnable, IsScan, ScanKinds
        <5>2. IsRunning
          BY <1>1, <5>1, StartedIsNewest DEF QueueSide, WorkSide
        <5> QED
          BY <5>1, <5>2 DEF IsRunning, BusyStates
      <4> QED
        BY <4>1
    <3> QED
      BY <1>1, <1>2, <2>1, <3>1, DataWorker DEF QueueSide, WorkSide
  <2>2. CASE UI
    BY <1>1, <1>2, <2>2, DataUI DEF WorkSide
  <2>3. CASE FileOps
    <3>1. UNCHANGED <<wpc, cmd, mode, todo, inflight, staged, completed, needsFullRebuild, staleLoad, missed, again>>
      BY <1>1, <2>3, FileOpsData DEF notFileOps, workVars, flagVars
    <3> QED
      BY <1>1, <1>2, <2>3, <3>1, FileOpsData, DataFrame DEF WorkSide
  <2>4. CASE UNCHANGED vars
    BY <1>1, <1>2, <2>4, DataFrame DEF vars, workVars, flagVars, ghostVars, requestGhosts, scanVars, WorkSide
  <2> QED
    BY <2>1, <2>2, <2>3, <2>4 DEF Next, Rest
<1>5. RunInv' /\ HelperInv'
  BY <1>1, RunStep, HelperStep DEF QueueSide, WorkSide
<1>6. RequestInv' /\ ViewInv'
  BY <1>1, <1>2, RequestStep, ViewStep DEF QueueSide, WorkSide
<1>7. ListedOnce'
  BY <1>1, <1>2, <1>4, ListedOnceStep DEF WorkSide
<1> QED
  BY <1>2, <1>3, <1>4, <1>5, <1>6, <1>7 DEF IInv, WorkSide

\* The strengthened invariant holds of every reachable state.
THEOREM Invariance == Spec => []IInv
BY Initially, Inductively, PTL DEF Spec

\* A reload that is dropped because one is queued loses nothing
\* (RequestReloadFromDisk with RunReload).
THEOREM CoalescedReloadIsPendingHolds == Spec => []CoalescedReloadIsPending
<1>1. IInv => CoalescedReloadIsPending
  BY DEF IInv, QueueSide
<1> QED
  BY <1>1, Invariance, PTL

\* No existing file is listed twice, whatever was cancelled half-way, as long as
\* the index was not loaded from a file of other roots and apart from the roots
\* that a failed Save kept out of a diff (needsFullRebuild_, RunSettingsChange).
THEOREM ListedOnceHolds == Spec => []ListedOnce
<1>1. IInv => ListedOnce
  BY DEF IInv, WorkSide
<1> QED
  BY <1>1, Invariance, PTL

\* pendingBusy_ counts the scan commands that are not finished, and busy is
\* not left reported without one (BeginBusy, EndBusy).
THEOREM BusyMatchesWorkHolds == Spec => []BusyMatchesWork
<1>1. IInv => BusyMatchesWork
  BY DEF IInv, QueueSide, BusyInv
<1> QED
  BY <1>1, Invariance, PTL

\* The roots of the newest request are monitored, and none once the helper has
\* taken over (RunIndexing, RunSettingsChange, RequestStopLocalIndexing).
THEOREM MonitorFollowsRequestsHolds == Spec => []MonitorFollowsRequests
<1>1. ASSUME IInv, Quiescent, used["request"] > 0 PROVE monitored = IF elevated THEN {} ELSE asked
  <2>1. Up /\ posting = <<>> /\ commands = <<>> /\ wpc = "idle"
    BY <1>1 DEF Quiescent, Up
  <2>2. CASE elevated
    <3>1. HelperInv
      BY <1>1 DEF IInv, WorkSide
    <3>2. ~StopQueued
      BY <2>1, PostedOne DEF StopQueued
    <3> QED
      BY <2>1, <2>2, <3>1, <3>2 DEF HelperInv
  <2>3. CASE ~elevated
    <3>1. RequestInv
      BY <1>1 DEF IInv, WorkSide
    <3>2. IsDone
      BY <2>1, <2>3, <3>1 DEF RequestInv, IsPosted, IsQueued, IsRunning, BusyStates
    <3> QED
      BY <1>1, <2>3, <3>2 DEF IsDone
  <2> QED
    BY <2>2, <2>3
<1>2. IInv => MonitorFollowsRequests
  BY <1>1 DEF MonitorFollowsRequests
<1> QED
  BY <1>2, Invariance, PTL

\* The index ends up being that of the latest request (IndexService.h), apart
\* from the roots that a failed Save kept out of a diff (ApplySettings).
THEOREM LatestRequestWinsHolds == Spec => []LatestRequestWins
<1>1. ASSUME IInv, Quiescent, ~elevated, used["request"] > 0, ~staleLoad, NEW p \in fs, RootOf[p] \notin missed
      PROVE  pool[p] = PoolOf(Under(asked))[p]
  <2>1. Up /\ posting = <<>> /\ commands = <<>> /\ wpc = "idle" /\ RequestInv
    BY <1>1 DEF Quiescent, Up, IInv, WorkSide
  <2>2. IsDone
    BY <1>1, <2>1 DEF RequestInv, IsPosted, IsQueued, IsRunning, BusyStates
  <2>3. pool[p] = One(RootOf[p] \in asked)
    BY <1>1, <2>2 DEF IsDone, Current, Right
  <2>4. p \in Paths
    BY <1>1 DEF IInv, RemovalInv, TypeOK, StoreTypeOK
  <2> QED
    BY <2>3, <2>4 DEF PoolOf, Under, One
<1>2. IInv => LatestRequestWins
  BY <1>1 DEF LatestRequestWins
<1> QED
  BY <1>2, Invariance, PTL

\* Every change of the index is reported in the end (onIndexChanged).
THEOREM ViewIsCurrentHolds == Spec => []ViewIsCurrent
<1>1. ASSUME IInv, Quiescent, ~elevated PROVE ~unseen
  BY <1>1 DEF Quiescent, Up, IInv, WorkSide, ViewInv, RestStates
<1>2. IInv => ViewIsCurrent
  BY <1>1 DEF ViewIsCurrent
<1> QED
  BY <1>2, Invariance, PTL
=============================================================================
