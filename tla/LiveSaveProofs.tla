--------------------------- MODULE LiveSaveProofs ---------------------------
(***************************************************************************)
(* Proofs about LiveSave for every set of monitors and every bound: type   *)
(* correctness, that no live change is dropped, and the idle gap.          *)
(***************************************************************************)
EXTENDS LiveSave, TLAPS

\* TypeOK in parts, each with a step of its own below.
ControlType ==
    pc \in States /\ task \in {"initial", "reload", "reindex", "live", "exit"}

FlagType ==
    /\ g_stop \in BOOLEAN /\ g_reloadSettings \in BOOLEAN /\ g_reindexNow \in BOOLEAN
    /\ monitorStop \in BOOLEAN /\ dirty \in BOOLEAN /\ lost \in BOOLEAN

MonitorType == mon \in [Monitors -> {"off", "watching", "applied"}]

CountType ==
    /\ index \in Nat /\ file \in Nat /\ buf \in Nat
    /\ changes \in Nat /\ signals \in Nat /\ back \in Nat

\* Beside its type, how the throttle's clock relates to the save under way:
\* what makes "lastSaveNs_ += durationNs" the end of that save.
ClockInv ==
    /\ interval \in Nat /\ took \in Int /\ elapsed \in Int /\ back \in Nat
    /\ gap \in 0..Forever /\ slip \in Int /\ lastTook \in Int
    /\ -back <= elapsed /\ elapsed <= Forever
    /\ -back <= slip /\ slip <= MaxDuration /\ took <= MaxDuration
    /\ Deciding => elapsed <= MaxDuration
    /\ LiveSaving => elapsed = slip + took
    /\ pc \in {"retry", "record"} => task = "live"
    /\ pc \in {"rebuild", "markSaved", "join", "flush"} => task # "live"

Typed == ControlType /\ FlagType /\ MonitorType /\ CountType /\ ClockInv

LEMMA TypedIsTypeOK == Typed => TypeOK
BY DEF Typed, ControlType, FlagType, MonitorType, CountType, ClockInv, TypeOK

LEMMA LargerType ==
    ASSUME NEW a \in Nat, NEW b \in Int
    PROVE  Larger(a, b) \in Nat /\ Larger(a, b) >= a /\ Larger(a, b) >= b
BY DEF Larger

LEMMA BoundTypes ==
    /\ MinInterval \in Nat /\ MaxDuration \in Nat /\ Forever \in Nat /\ Wrap \in Nat
    /\ 2 * MaxDuration <= Forever
BY IntervalAssumption, BoundsAssumption DEF kSaveCostFactor

LEMMA UnsignedType == ASSUME NEW t \in Int PROVE Unsigned(t) \in Int
BY BoundTypes DEF Unsigned

LEMMA TypedInit == Init => Typed
<1> SUFFICES ASSUME Init PROVE Typed
  OBVIOUS
<1>1. ControlType /\ MonitorType
  BY DEF Init, ControlType, MonitorType, States
<1>2. FlagType
  BY DEF Init, FlagType
<1>3. CountType
  BY DEF Init, CountType
<1>4. ClockInv
  BY BoundTypes DEF Init, ClockInv, Deciding, LiveSaving
<1> QED
  BY <1>1, <1>2, <1>3, <1>4 DEF Typed

LEMMA ControlStep == ControlType /\ [Next]_vars => ControlType'
BY DEF ControlType, States, Next, Main, Monitor, Exited, vars, notMonitors, flags, ghosts,
       bounded, throttle, content, monitoring,
       Mutate, Notify, MonitorStops, Signal, Tick, ClockSetBack,
       InitialLoad, Rebuild, Serialize, WriteSucceeds, WriteFails, MarkSaved, TakeReload,
       TakeReindex, NoSignal, Join, Decide, NotDue, ClearDirty, StartSave, Retry,
       RecordSaveDuration, LeaveLoop, Flush

LEMMA FlagStep == FlagType /\ ControlType /\ [Next]_vars => FlagType'
<1> SUFFICES ASSUME FlagType, [Next]_vars PROVE FlagType'
  OBVIOUS
<1> USE DEF FlagType, flags, monitoring, content, throttle, bounded, ghosts, notMonitors
<1>1. ASSUME NEW m \in Monitors, Monitor(m) PROVE FlagType'
  BY <1>1 DEF Monitor, Mutate, Notify, MonitorStops
<1>2. CASE Signal \/ Tick \/ ClockSetBack \/ Exited \/ UNCHANGED vars
  BY <1>2 DEF Signal, Tick, ClockSetBack, Exited, vars
<1>3. CASE Main
  BY <1>3 DEF Main, InitialLoad, Rebuild, Serialize, WriteSucceeds, WriteFails, MarkSaved,
              TakeReload, TakeReindex, NoSignal, Join, Decide, NotDue, ClearDirty,
              StartSave, Retry, RecordSaveDuration, LeaveLoop, Flush
<1> QED
  BY <1>1, <1>2, <1>3 DEF Next

LEMMA MonitorStep == MonitorType /\ [Next]_vars => MonitorType'
BY DEF MonitorType, Next, Main, Monitor, Exited, vars, notMonitors, flags, ghosts,
       bounded, throttle, content, monitoring,
       Mutate, Notify, MonitorStops, Signal, Tick, ClockSetBack,
       InitialLoad, Rebuild, Serialize, WriteSucceeds, WriteFails, MarkSaved, TakeReload,
       TakeReindex, NoSignal, Join, Decide, NotDue, ClearDirty, StartSave, Retry,
       RecordSaveDuration, LeaveLoop, Flush

LEMMA CountStep == CountType /\ [Next]_vars => CountType'
BY DEF CountType, Next, Main, Monitor, Exited, vars, notMonitors, flags, ghosts,
       bounded, throttle, content, monitoring,
       Mutate, Notify, MonitorStops, Signal, Tick, ClockSetBack,
       InitialLoad, Rebuild, Serialize, WriteSucceeds, WriteFails, MarkSaved, TakeReload,
       TakeReindex, NoSignal, Join, Decide, NotDue, ClearDirty, StartSave, Retry,
       RecordSaveDuration, LeaveLoop, Flush

LEMMA ClockStep == ClockInv /\ [Next]_vars => ClockInv'
<1> SUFFICES ASSUME ClockInv, [Next]_vars PROVE ClockInv'
  OBVIOUS
<1> USE DEF ClockInv, Deciding, LiveSaving, flags, monitoring, content, throttle, bounded,
            ghosts
<1>1. ASSUME NEW m \in Monitors, Monitor(m) PROVE ClockInv'
  BY <1>1 DEF Monitor, Mutate, Notify, MonitorStops, notMonitors
<1>2. CASE Signal \/ Exited \/ UNCHANGED vars
  BY <1>2 DEF Signal, Exited, vars
<1>3. CASE Tick
  <2>1. pc' = pc /\ task' = task /\ back' = back /\ slip' = slip
    BY <1>3 DEF Tick
  <2>2. elapsed' \in Int /\ -back <= elapsed' /\ elapsed' <= Forever /\ gap' \in 0..Forever
    BY <1>3, BoundTypes DEF Tick, Capped
  <2>3. took' \in Int /\ took' <= MaxDuration
    BY <1>3, BoundTypes DEF Tick
  <2>4. Deciding => elapsed' <= MaxDuration
    BY <1>3, BoundTypes DEF Tick, Capped
  <2>5. LiveSaving => elapsed' = slip + took'
    BY <1>3, BoundTypes DEF Tick, Capped
  <2> QED
    BY <1>3, <2>1, <2>2, <2>3, <2>4, <2>5 DEF Tick
<1>4. CASE ClockSetBack
  <2>1. pc' = pc /\ task' = task /\ slip' = slip /\ back' = back + 1 /\ elapsed' = elapsed - 1
    BY <1>4 DEF ClockSetBack
  <2>2. took' \in Int /\ took' <= MaxDuration /\ (LiveSaving => elapsed' = slip + took')
    BY <1>4, BoundTypes DEF ClockSetBack
  <2> QED
    BY <1>4, <2>1, <2>2, BoundTypes DEF ClockSetBack
<1>5. CASE InitialLoad \/ Rebuild \/ Serialize \/ WriteSucceeds \/ WriteFails
  BY <1>5 DEF InitialLoad, Rebuild, Serialize, WriteSucceeds, WriteFails
<1>6. CASE MarkSaved
  BY <1>6, BoundTypes DEF MarkSaved
<1>7. CASE TakeReload \/ TakeReindex \/ NoSignal \/ Join \/ LeaveLoop \/ Flush
  BY <1>7 DEF TakeReload, TakeReindex, NoSignal, Join, LeaveLoop, Flush
<1>8. CASE Decide \/ NotDue \/ ClearDirty \/ StartSave \/ Retry
  BY <1>8, BoundTypes DEF Decide, NotDue, ClearDirty, StartSave, Retry
<1>9. CASE RecordSaveDuration
  <2>1. interval' \in Nat
    BY <1>9, LargerType, UnsignedType, BoundTypes DEF RecordSaveDuration, kSaveCostFactor
  <2>2. elapsed' = slip
    BY <1>9 DEF RecordSaveDuration
  <2> QED
    BY <1>9, <2>1, <2>2, BoundTypes DEF RecordSaveDuration
<1> QED
  BY <1>1, <1>2, <1>3, <1>4, <1>5, <1>6, <1>7, <1>8, <1>9 DEF Next, Main

LEMMA TypedStep == Typed /\ [Next]_vars => Typed'
BY ControlStep, FlagStep, MonitorStep, CountStep, ClockStep DEF Typed

\* Every variable keeps its type, and the throttle's clock its range, even if
\* the clock is set back.
THEOREM TypeCorrect == Spec => []TypeOK
BY TypedInit, TypedStep, TypedIsTypeOK, PTL DEF Spec

-----------------------------------------------------------------------------
(* No live change is dropped.                                              *)

\* For a rebuild the monitors are joined and stay off until MarkSaved; the
\* flush at exit is made with the flag set and leaves it set.
Rebuilding ==
    \/ pc \in {"rebuild", "markSaved"}
    \/ pc \in {"serialize", "write"} /\ task \notin {"live", "exit"}

RebuildInv ==
    /\ Rebuilding => MonitorsOff
    /\ pc \in {"rebuild", "markSaved", "join"} => task \notin {"live", "exit"}
    /\ pc = "flush" => task = "exit"
    /\ pc \in {"serialize", "write"} /\ task = "exit" => dirty

AnyApplied == \E m \in Monitors : mon[m] = "applied"

\* What is being written is current, or known not to be; before MarkSaved drops
\* the flag, a rebuild is in the file or known to be lost.
WriteInv ==
    /\ pc = "write" => buf = index \/ dirty \/ AnyApplied
    /\ pc = "write" /\ task \notin {"live", "exit"} => buf = index
    /\ pc = "markSaved" => index = file \/ lost

PendingInv == MonitorType /\ RebuildInv /\ WriteInv /\ ChangesStayPending

LEMMA PendingInit == Init => PendingInv
BY DEF Init, PendingInv, MonitorType, RebuildInv, Rebuilding, MonitorsOff, WriteInv,
       ChangesStayPending

\* Only monitors change what the monitors do, but for MarkSaved.
LEMMA RebuildStep == MonitorType /\ RebuildInv /\ [Next]_vars => RebuildInv'
<1> SUFFICES ASSUME MonitorType, RebuildInv, [Next]_vars PROVE RebuildInv'
  OBVIOUS
<1> USE DEF RebuildInv, Rebuilding, MonitorsOff, MonitorType, flags, monitoring, content,
            throttle, bounded, ghosts
<1>1. ASSUME NEW m \in Monitors, Mutate(m) \/ Notify(m) \/ MonitorStops(m) PROVE RebuildInv'
  <2>1. mon[m] # "off"
    BY <1>1 DEF Mutate, Notify, MonitorStops
  <2>2. ~Rebuilding
    BY <2>1
  <2>3. pc' = pc /\ task' = task /\ (dirty => dirty')
    BY <1>1 DEF Mutate, Notify, MonitorStops, notMonitors
  <2> QED
    BY <2>2, <2>3
<1>2. CASE Signal \/ Tick \/ ClockSetBack \/ Exited \/ UNCHANGED vars
  BY <1>2 DEF Signal, Tick, ClockSetBack, Exited, vars
<1>3. CASE InitialLoad \/ Rebuild \/ Serialize
  BY <1>3 DEF InitialLoad, Rebuild, Serialize
<1>4. CASE WriteSucceeds \/ WriteFails
  BY <1>4 DEF WriteSucceeds, WriteFails
<1>5. CASE MarkSaved
  BY <1>5 DEF MarkSaved
<1>6. CASE TakeReload \/ TakeReindex \/ NoSignal \/ Join
  BY <1>6 DEF TakeReload, TakeReindex, NoSignal, Join
<1>7. CASE Decide \/ NotDue \/ ClearDirty \/ StartSave
  BY <1>7 DEF Decide, NotDue, ClearDirty, StartSave
<1>8. CASE Retry \/ RecordSaveDuration \/ LeaveLoop \/ Flush
  BY <1>8 DEF Retry, RecordSaveDuration, LeaveLoop, Flush
<1> QED
  BY <1>1, <1>2, <1>3, <1>4, <1>5, <1>6, <1>7, <1>8 DEF Next, Main, Monitor

LEMMA WriteStep ==
    PendingInv /\ [Next]_vars => WriteInv' /\ ChangesStayPending'
<1> SUFFICES ASSUME PendingInv, [Next]_vars PROVE WriteInv' /\ ChangesStayPending'
  OBVIOUS
<1> USE DEF PendingInv, WriteInv, AnyApplied, ChangesStayPending, SavingIt, flags, monitoring,
            content, throttle, bounded, ghosts
<1>1. ASSUME NEW m \in Monitors, Mutate(m) PROVE WriteInv' /\ ChangesStayPending'
  <2>1. mon'[m] = "applied"
    BY <1>1 DEF Mutate, MonitorType
  <2>2. pc' = pc /\ task' = task /\ ~Rebuilding
    BY <1>1 DEF Mutate, notMonitors, RebuildInv, MonitorsOff
  <2> QED
    BY <2>1, <2>2 DEF Rebuilding
<1>2. ASSUME NEW m \in Monitors, Notify(m) PROVE WriteInv' /\ ChangesStayPending'
  BY <1>2 DEF Notify, notMonitors
<1>3. ASSUME NEW m \in Monitors, MonitorStops(m) PROVE WriteInv' /\ ChangesStayPending'
  <2>1. \A n \in Monitors : mon[n] = "applied" => mon'[n] = "applied"
    BY <1>3 DEF MonitorStops, MonitorType
  <2> QED
    BY <1>3, <2>1 DEF MonitorStops, notMonitors
<1>4. CASE Signal \/ Tick \/ ClockSetBack \/ Exited \/ UNCHANGED vars
  BY <1>4 DEF Signal, Tick, ClockSetBack, Exited, vars
<1>5. CASE InitialLoad \/ Rebuild \/ Serialize
  BY <1>5 DEF InitialLoad, Rebuild, Serialize
<1>6. CASE WriteSucceeds
  <2>1. pc' \notin {"write", "serialize"}
    BY <1>6 DEF WriteSucceeds
  <2>2. pc' = "markSaved" => index' = file'
    BY <1>6 DEF WriteSucceeds
  <2>3. ChangesStayPending'
    BY <1>6, <2>1 DEF WriteSucceeds
  <2> QED
    BY <2>1, <2>2, <2>3
<1>7. CASE WriteFails
  <2>1. CASE task = "live"
    BY <1>7, <2>1 DEF WriteFails
  <2>2. CASE task = "exit"
    BY <1>7, <2>2 DEF WriteFails, RebuildInv
  <2>3. CASE task \notin {"live", "exit"}
    BY <1>7, <2>3 DEF WriteFails
  <2> QED
    BY <2>1, <2>2, <2>3
<1>8. CASE MarkSaved
  BY <1>8 DEF MarkSaved
<1>9. CASE TakeReload \/ TakeReindex \/ NoSignal \/ Join
  BY <1>9 DEF TakeReload, TakeReindex, NoSignal, Join
<1>10. CASE Decide \/ NotDue \/ ClearDirty \/ StartSave
  BY <1>10 DEF Decide, NotDue, ClearDirty, StartSave
<1>11. CASE Retry \/ RecordSaveDuration \/ LeaveLoop
  BY <1>11 DEF Retry, RecordSaveDuration, LeaveLoop
<1>12. CASE Flush
  BY <1>12 DEF Flush, MonitorsOff
<1> QED
  BY <1>1, <1>2, <1>3, <1>4, <1>5, <1>6, <1>7, <1>8, <1>9, <1>10, <1>11, <1>12
     DEF Next, Main, Monitor

\* Between MarkDirty on the monitor threads and the clearing, retrying and
\* flushing of the main loop no live change is forgotten.
THEOREM LiveChangesStayPending == Spec => []ChangesStayPending
<1>1. PendingInv /\ [Next]_vars => PendingInv'
  BY MonitorStep, RebuildStep, WriteStep DEF PendingInv
<1>2. PendingInv => ChangesStayPending
  BY DEF PendingInv
<1> QED
  BY PendingInit, <1>1, <1>2, PTL DEF Spec

-----------------------------------------------------------------------------
(* The idle gap, while the clock is not set back.                          *)

\* Outside a live save lastSaveNs_ lies at the end of the last one or later
\* (but for the time the decision to save took), and the interval is the one
\* computed from that save's duration.
ForwardGap ==
    /\ 0 <= elapsed /\ 0 <= took /\ 0 <= slip /\ 0 <= lastTook
    /\ interval = Larger(MinInterval, kSaveCostFactor * lastTook)
    /\ ~LiveSaving => elapsed <= gap + slip
    /\ IdleGap

GapInv == back = 0 => ForwardGap

LEMMA GapInit == Init => GapInv
<1> SUFFICES ASSUME Init PROVE GapInv
  OBVIOUS
<1>1. Larger(MinInterval, kSaveCostFactor * lastTook) = MinInterval
  BY BoundTypes DEF Init, Larger, kSaveCostFactor
<1> QED
  BY <1>1, BoundTypes DEF Init, GapInv, ForwardGap, IdleGap, LiveSaving

LEMMA BackStep == ASSUME ClockInv, [Next]_vars PROVE back' >= back
<1> USE DEF ClockInv, bounded
<1>1. CASE ClockSetBack
  BY <1>1 DEF ClockSetBack
<1>2. CASE Signal \/ Tick \/ Exited \/ UNCHANGED vars
  BY <1>2 DEF Signal, Tick, Exited, vars
<1>3. ASSUME NEW m \in Monitors, Monitor(m) PROVE back' >= back
  BY <1>3 DEF Monitor, Mutate, Notify, MonitorStops, notMonitors
<1>4. CASE Main
  BY <1>4 DEF Main, InitialLoad, Rebuild, Serialize, WriteSucceeds, WriteFails, MarkSaved,
        TakeReload, TakeReindex, NoSignal, Join, Decide, NotDue, ClearDirty, StartSave, Retry,
        RecordSaveDuration, LeaveLoop, Flush
<1> QED
  BY <1>1, <1>2, <1>3, <1>4 DEF Next

LEMMA GapStep == ClockInv /\ GapInv /\ [Next]_vars => GapInv'
<1> SUFFICES ASSUME ClockInv, GapInv, [Next]_vars, back' = 0 PROVE ForwardGap'
  BY DEF GapInv
<1>a. back = 0
  BY BackStep DEF ClockInv
<1>b. ForwardGap
  BY <1>a DEF GapInv
<1> USE <1>a, <1>b
<1> DEFINE Gap == Larger(MinInterval, kSaveCostFactor * lastTook)
<1>1. Gap \in Nat
  BY BoundTypes, LargerType DEF ClockInv, kSaveCostFactor
<1>2. CASE UNCHANGED <<elapsed, took, slip, lastTook, interval, gap>>
           /\ (LiveSaving' <=> LiveSaving) /\ (pc' = "clear" => pc = "clear")
  BY <1>2 DEF ForwardGap, IdleGap
<1> USE DEF flags, monitoring, content, throttle, bounded, ghosts, LiveSaving
<1>3. ASSUME NEW m \in Monitors, Monitor(m) PROVE ForwardGap'
  BY <1>2, <1>3 DEF Monitor, Mutate, Notify, MonitorStops, notMonitors
<1>4. CASE Signal \/ Exited \/ UNCHANGED vars
  BY <1>2, <1>4 DEF Signal, Exited, vars
<1>5. CASE Tick
  <2>1. UNCHANGED <<pc, task, slip, lastTook, interval>>
    BY <1>5 DEF Tick
  <2>2. 0 <= elapsed' /\ 0 <= took' /\ gap <= gap' /\ gap' \in Nat
    BY <1>5, BoundTypes DEF Tick, Capped, ClockInv, ForwardGap
  <2>3. ~LiveSaving => elapsed' <= gap' + slip
    BY <1>5, BoundTypes DEF Tick, Capped, ClockInv, ForwardGap
  <2>4. IdleGap'
    <3> SUFFICES ASSUME pc = "clear" PROVE gap' + slip >= Gap
      BY <2>1 DEF IdleGap
    <3>1. gap + slip >= Gap
      BY DEF ForwardGap, IdleGap
    <3> QED
      BY <1>1, <2>2, <3>1 DEF ClockInv
  <2> QED
    BY <2>1, <2>2, <2>3, <2>4 DEF ForwardGap
<1>6. CASE ClockSetBack
  BY <1>6 DEF ClockSetBack, ClockInv
<1>7. CASE InitialLoad \/ Rebuild \/ Serialize \/ WriteSucceeds \/ WriteFails
  <2>1. UNCHANGED <<elapsed, took, slip, lastTook, interval, gap>> /\ pc' # "clear"
    BY <1>7 DEF InitialLoad, Rebuild, Serialize, WriteSucceeds, WriteFails
  <2>2. LiveSaving' <=> LiveSaving
    BY <1>7 DEF InitialLoad, Rebuild, Serialize, WriteSucceeds, WriteFails, ClockInv
  <2> QED
    BY <1>2, <2>1, <2>2
<1>8. CASE MarkSaved
  <2>1. UNCHANGED <<took, slip, lastTook, interval, gap>> /\ elapsed' = 0 /\ pc' # "clear"
    BY <1>8 DEF MarkSaved
  <2> QED
    BY <2>1 DEF ForwardGap, IdleGap, ClockInv
<1>9. CASE TakeReload \/ TakeReindex \/ NoSignal \/ Join \/ LeaveLoop \/ Flush
  BY <1>2, <1>9 DEF TakeReload, TakeReindex, NoSignal, Join, LeaveLoop, Flush, ClockInv
<1>10. CASE NotDue \/ ClearDirty \/ Retry
  BY <1>2, <1>10 DEF NotDue, ClearDirty, Retry, ClockInv
<1>11. CASE Decide
  <2>1. UNCHANGED <<took, slip, lastTook, interval, gap>> /\ elapsed' = 0 /\ ~LiveSaving
    BY <1>11 DEF Decide
  <2>2. elapsed >= interval
    BY <1>11 DEF Decide, Due, Unsigned, ForwardGap, ClockInv
  <2>3. gap + slip >= Gap
    BY <1>1, <2>1, <2>2 DEF ForwardGap, ClockInv
  <2> QED
    BY <2>1, <2>3 DEF ForwardGap, IdleGap, ClockInv
<1>12. CASE StartSave
  <2>1. UNCHANGED <<elapsed, lastTook, interval, gap>> /\ took' = 0 /\ slip' = elapsed
        /\ LiveSaving' /\ pc' # "clear"
    BY <1>12 DEF StartSave
  <2> QED
    BY <2>1 DEF ForwardGap, IdleGap, ClockInv
<1>13. CASE RecordSaveDuration
  <2>1. lastTook' = took /\ gap' = 0 /\ UNCHANGED <<took, slip>> /\ pc' = "loop"
    BY <1>13 DEF RecordSaveDuration
  <2>2. elapsed' = slip
    BY <1>13 DEF RecordSaveDuration, ClockInv
  <2>3. interval' = Larger(MinInterval, kSaveCostFactor * took)
    BY <1>13 DEF RecordSaveDuration, Unsigned, kSaveCostFactor, ForwardGap, ClockInv
  <2> QED
    BY <2>1, <2>2, <2>3 DEF ForwardGap, IdleGap, ClockInv
<1> QED
  BY <1>3, <1>4, <1>5, <1>6, <1>7, <1>8, <1>9, <1>10, <1>11, <1>12, <1>13 DEF Next, Main

\* Until the clock is set back, a live save is decided on only after the
\* idle gap its predecessor asks for: the two conditions ShouldSave checks and
\* the correction RecordSaveDuration makes to lastSaveNs_ add up to the promise.
THEOREM IdleGapIsKept == Spec => []IdleGap
<1>1. Init => ClockInv /\ GapInv
  BY TypedInit, GapInit DEF Typed
<1>2. ClockInv /\ GapInv /\ [Next]_vars => ClockInv' /\ GapInv'
  BY ClockStep, GapStep
<1>3. GapInv => IdleGap
  BY DEF GapInv, ForwardGap, IdleGap
<1> QED
  BY <1>1, <1>2, <1>3, PTL DEF Spec
=============================================================================
