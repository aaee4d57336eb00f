------------------------------ MODULE LiveSave ------------------------------
(***************************************************************************)
(* The elevated helper's main loop (src/helper/main_helper.cpp) with the   *)
(* SaveThrottle that decides when changes seen by its live monitoring are  *)
(* written to the index file, the one way they reach the window.           *)
(*                                                                         *)
(* Abstractions: the contents of the live index and of the index file are  *)
(* version numbers, each mutation or rebuild being a new version; a write  *)
(* replaces the file or leaves it (AtomicReplace); which roots are indexed *)
(* is not modelled. Time passes in ticks, and instead of lastSaveNs_ the   *)
(* model keeps the time the clock shows to have passed since then.         *)
(***************************************************************************)
EXTENDS Integers

CONSTANTS
    Monitors,      \* the live-monitoring threads, one per root
    MinInterval,   \* kLiveSaveIntervalNs, in ticks
    Wrap,          \* 2^64
    Forever,       \* bound: time stops being counted here
    MaxDuration,   \* bound: ticks in one save
    MaxChanges,    \* bound: changes the monitors apply
    MaxSignals,    \* bound: SIGHUPs and SIGUSR1s
    MaxBack        \* bound: ticks the clock is set back by

kSaveCostFactor == 5

ASSUME IntervalAssumption == MinInterval \in Nat
ASSUME BoundsAssumption ==
    /\ MaxDuration \in Nat /\ MaxChanges \in Nat /\ MaxSignals \in Nat /\ MaxBack \in Nat
    /\ Forever \in Nat /\ Forever >= MinInterval
    /\ Forever >= (kSaveCostFactor + 1) * MaxDuration
    /\ Wrap \in Nat /\ Wrap > Forever + (kSaveCostFactor + 1) * (MaxDuration + MaxBack)

VARIABLES
    pc, task,           \* the main thread, and what its rebuild or save is for
    g_stop, g_reloadSettings, g_reindexNow,
    monitorStop, mon,   \* each monitor thread: "off", "watching" or "applied"
    index, file, buf,   \* versions: live index, index file, bytes being written
    dirty, interval, elapsed,   \* SaveThrottle; elapsed = nowNs - lastSaveNs_
    took,               \* nowNs - saveStartNs
    changes, signals, back,     \* what the bounds count
    \* Read by the properties only.
    lost,               \* the last rebuild could not be written
    gap, slip, lastTook \* of the last live save: time since its end, time from
                        \* the decision to its start, its duration

flags      == <<g_stop, g_reloadSettings, g_reindexNow>>
monitoring == <<monitorStop, mon>>
content    == <<index, file, buf>>
throttle   == <<dirty, interval, elapsed>>
bounded    == <<changes, signals, back>>
ghosts     == <<lost, gap, slip, lastTook>>

vars == <<pc, task, flags, monitoring, content, throttle, took, bounded, ghosts>>

Larger(a, b) == IF a > b THEN a ELSE b

Capped(t) == IF t > Forever THEN Forever ELSE t

\* A uint64_t difference.
Unsigned(t) == IF t < 0 THEN t + Wrap ELSE t

-----------------------------------------------------------------------------
(* The monitor threads.                                                    *)

notMonitors == <<pc, task, flags, monitorStop, file, buf, interval, elapsed, took, signals, back,
                 ghosts>>

\* ApplyChangeEvent changes the store; a Modified event does so twice.
Mutate(m) ==
    /\ mon[m] \in {"watching", "applied"} /\ changes < MaxChanges
    /\ changes' = changes + 1
    /\ index' = index + 1
    /\ mon' = [mon EXCEPT ![m] = "applied"]
    /\ UNCHANGED <<notMonitors, dirty>>

\* NotifyMutation, after the store's lock is released: MarkDirty.
Notify(m) ==
    /\ mon[m] = "applied"
    /\ dirty' = TRUE
    /\ mon' = [mon EXCEPT ![m] = "watching"]
    /\ UNCHANGED <<notMonitors, index, changes>>

\* The monitor sees the stop token and its thread ends.
MonitorStops(m) ==
    /\ mon[m] = "watching" /\ monitorStop
    /\ mon' = [mon EXCEPT ![m] = "off"]
    /\ UNCHANGED <<notMonitors, index, dirty, changes>>

-----------------------------------------------------------------------------
(* Signals and the clock.                                                  *)

\* HandleSignal: SIGTERM, SIGHUP or SIGUSR1.
Signal ==
    /\ signals < MaxSignals
    /\ signals' = signals + 1
    /\ \/ g_stop' = TRUE /\ UNCHANGED <<g_reloadSettings, g_reindexNow>>
       \/ g_reloadSettings' = TRUE /\ UNCHANGED <<g_stop, g_reindexNow>>
       \/ g_reindexNow' = TRUE /\ UNCHANGED <<g_stop, g_reloadSettings>>
    /\ UNCHANGED <<pc, task, monitoring, content, throttle, took, changes, back, ghosts>>

Deciding   == pc \in {"clear", "saveStart"}
LiveSaving == task = "live" /\ pc \in {"serialize", "write", "retry", "record"}

\* A tick of the clock. A save and the way to it take MaxDuration at most.
Tick ==
    /\ elapsed < Forever \/ gap < Forever \/ LiveSaving
    /\ Deciding => elapsed < MaxDuration
    /\ LiveSaving => took < MaxDuration
    /\ elapsed' = Capped(elapsed + 1)
    /\ took' = IF LiveSaving THEN took + 1 ELSE took
    /\ gap' = Capped(gap + 1)
    /\ UNCHANGED <<pc, task, flags, monitoring, content, dirty, interval, bounded,
                   lost, slip, lastTook>>

\* NowNs reads system_clock, which can be set back.
ClockSetBack ==
    /\ back < MaxBack
    /\ back' = back + 1
    /\ elapsed' = elapsed - 1
    /\ took' = IF LiveSaving THEN took - 1 ELSE took
    /\ UNCHANGED <<pc, task, flags, monitoring, content, dirty, interval, changes, signals,
                   ghosts>>

-----------------------------------------------------------------------------
(* The main thread.                                                        *)

MonitorsOff == \A m \in Monitors : mon[m] = "off"

\* StartIndexing(force = false) before the loop: the file is loaded ...
InitialLoad ==
    /\ pc = "rebuild" /\ task = "initial"
    /\ index' = file
    /\ pc' = "markSaved"
    /\ UNCHANGED <<task, flags, monitoring, file, buf, throttle, took, bounded, ghosts>>

\* ... or scanned for, as after a signal: a new pool is swapped in.
Rebuild ==
    /\ pc = "rebuild"
    /\ index' = index + 1
    /\ pc' = "serialize"
    /\ UNCHANGED <<task, flags, monitoring, file, buf, throttle, took, bounded, ghosts>>

\* SaveIndex: serialize under the shared lock, then write.
Serialize ==
    /\ pc = "serialize"
    /\ buf' = index
    /\ pc' = "write"
    /\ UNCHANGED <<task, flags, monitoring, index, file, throttle, took, bounded, ghosts>>

WriteSucceeds ==
    /\ pc = "write"
    /\ file' = buf
    /\ lost' = FALSE
    /\ pc' = CASE task = "live" -> "record"
               [] task = "exit" -> "exited"
               [] OTHER         -> "markSaved"
    /\ UNCHANGED <<task, flags, monitoring, index, buf, throttle, took, bounded, gap, slip,
                   lastTook>>

\* Mutant of WriteFails: a failed live save is not retried.
WriteFailsUnnoticed ==
    /\ pc = "write"
    /\ lost' = (lost \/ task \notin {"live", "exit"})
    /\ pc' = CASE task = "live" -> "record"
               [] task = "exit" -> "exited"
               [] OTHER         -> "markSaved"
    /\ UNCHANGED <<task, flags, monitoring, content, throttle, took, bounded, gap, slip, lastTook>>

\* The file is left as it was. StartIndexing does not look at the result of
\* its save, nor does the flush at the end.
WriteFails ==
    /\ pc = "write"
    /\ lost' = (lost \/ task \notin {"live", "exit"})
    /\ pc' = CASE task = "live" -> "retry"
               [] task = "exit" -> "exited"
               [] OTHER         -> "markSaved"
    /\ UNCHANGED <<task, flags, monitoring, content, throttle, took, bounded, gap, slip, lastTook>>

\* liveSaves.MarkSaved; then the monitors are started (again).
MarkSaved ==
    /\ pc = "markSaved"
    /\ dirty' = FALSE
    /\ elapsed' = 0
    /\ monitorStop' = FALSE
    /\ mon' = [m \in Monitors |-> "watching"]
    /\ pc' = CASE task = "reload"  -> "reindex"
               [] task = "reindex" -> "poll"
               [] OTHER            -> "loop"
    /\ UNCHANGED <<task, flags, content, interval, took, bounded, ghosts>>

\* SIGHUP, then SIGUSR1: the monitors are told to stop, for a rebuild.
TakeReload ==
    /\ pc = "loop" /\ ~g_stop /\ g_reloadSettings
    /\ g_reloadSettings' = FALSE
    /\ monitorStop' = TRUE
    /\ task' = "reload"
    /\ pc' = "join"
    /\ UNCHANGED <<g_stop, g_reindexNow, mon, content, throttle, took, bounded, ghosts>>

TakeReindex ==
    /\ pc = "reindex" /\ g_reindexNow
    /\ g_reindexNow' = FALSE
    /\ monitorStop' = TRUE
    /\ task' = "reindex"
    /\ pc' = "join"
    /\ UNCHANGED <<g_stop, g_reloadSettings, mon, content, throttle, took, bounded, ghosts>>

NoSignal ==
    /\ \/ pc = "loop" /\ ~g_stop /\ ~g_reloadSettings /\ pc' = "reindex"
       \/ pc = "reindex" /\ ~g_reindexNow /\ pc' = "poll"
    /\ UNCHANGED <<task, flags, monitoring, content, throttle, took, bounded, ghosts>>

\* Mutant of Join: monitorThread.join() is left out.
JoinNothing ==
    /\ pc = "join"
    /\ pc' = "rebuild"
    /\ UNCHANGED <<task, flags, monitoring, content, throttle, took, bounded, ghosts>>

Join ==
    /\ pc = "join" /\ MonitorsOff
    /\ pc' = "rebuild"
    /\ UNCHANGED <<task, flags, monitoring, content, throttle, took, bounded, ghosts>>

Due == dirty /\ Unsigned(elapsed) >= interval

\* ShouldSave(NowNs()): a save is due ...
Decide ==
    /\ pc = "poll" /\ Due
    /\ elapsed' = 0
    /\ pc' = "clear"
    /\ UNCHANGED <<task, flags, monitoring, content, dirty, interval, took, bounded, ghosts>>

NotDue ==
    /\ pc = "poll" /\ ~Due
    /\ pc' = "loop"
    /\ UNCHANGED <<task, flags, monitoring, content, throttle, took, bounded, ghosts>>

\* ... and the flag is cleared before the caller saves.
ClearDirty ==
    /\ pc = "clear"
    /\ dirty' = FALSE
    /\ pc' = "saveStart"
    /\ UNCHANGED <<task, flags, monitoring, content, interval, elapsed, took, bounded, ghosts>>

\* saveStartNs = NowNs(), and PersistLiveChanges.
StartSave ==
    /\ pc = "saveStart"
    /\ took' = 0
    /\ slip' = elapsed
    /\ task' = "live"
    /\ pc' = "serialize"
    /\ UNCHANGED <<flags, monitoring, content, throttle, bounded, lost, gap, lastTook>>

\* MarkDirty after a failed save: retried on the next interval.
Retry ==
    /\ pc = "retry"
    /\ dirty' = TRUE
    /\ pc' = "record"
    /\ UNCHANGED <<task, flags, monitoring, content, interval, elapsed, took, bounded, ghosts>>

\* Mutant of RecordSaveDuration: the interval runs from the save's start.
RecordFromStart ==
    /\ pc = "record"
    /\ interval' = Larger(MinInterval, Unsigned(kSaveCostFactor * took))
    /\ gap' = 0
    /\ lastTook' = took
    /\ pc' = "loop"
    /\ UNCHANGED <<task, flags, monitoring, content, dirty, elapsed, took, bounded, lost, slip>>

\* The interval becomes five times the save's duration, from the save's end.
RecordSaveDuration ==
    /\ pc = "record"
    /\ interval' = Larger(MinInterval, Unsigned(kSaveCostFactor * took))
    /\ elapsed' = elapsed - took
    /\ gap' = 0
    /\ lastTook' = took
    /\ pc' = "loop"
    /\ UNCHANGED <<task, flags, monitoring, content, dirty, took, bounded, lost, slip>>

\* Mutant of LeaveLoop: the monitors are not told to stop.
LeaveLoopWatching ==
    /\ pc = "loop" /\ g_stop
    /\ task' = "exit"
    /\ pc' = "flush"
    /\ UNCHANGED <<flags, monitoring, content, throttle, took, bounded, ghosts>>

\* SIGTERM: the monitors are told to stop ...
LeaveLoop ==
    /\ pc = "loop" /\ g_stop
    /\ monitorStop' = TRUE
    /\ task' = "exit"
    /\ pc' = "flush"
    /\ UNCHANGED <<flags, mon, content, throttle, took, bounded, ghosts>>

\* ... joined, and the changes still pending are saved.
Flush ==
    /\ pc = "flush" /\ MonitorsOff
    /\ pc' = IF dirty THEN "serialize" ELSE "exited"
    /\ UNCHANGED <<task, flags, monitoring, content, throttle, took, bounded, ghosts>>

-----------------------------------------------------------------------------
Init ==
    /\ pc = "rebuild" /\ task = "initial"
    /\ g_stop = FALSE /\ g_reloadSettings = FALSE /\ g_reindexNow = FALSE
    /\ monitorStop = FALSE /\ mon = [m \in Monitors |-> "off"]
    /\ index = 0 /\ file = 0 /\ buf = 0
    /\ dirty = FALSE /\ interval = MinInterval /\ elapsed = 0 /\ took = 0
    /\ changes = 0 /\ signals = 0 /\ back = 0
    /\ lost = FALSE /\ gap = Forever /\ slip = 0 /\ lastTook = 0

Main ==
    \/ InitialLoad \/ Rebuild \/ Serialize \/ WriteSucceeds \/ WriteFails \/ MarkSaved
    \/ TakeReload \/ TakeReindex \/ NoSignal \/ Join
    \/ Decide \/ NotDue \/ ClearDirty \/ StartSave \/ Retry \/ RecordSaveDuration
    \/ LeaveLoop \/ Flush

Monitor(m) == Mutate(m) \/ Notify(m) \/ MonitorStops(m)

Exited == pc = "exited" /\ UNCHANGED vars

Next == Main \/ Signal \/ Tick \/ ClockSetBack \/ Exited \/ \E m \in Monitors : Monitor(m)

Spec == Init /\ [][Next]_vars

\* The threads are scheduled, time passes, and the disk does not refuse every
\* write; changes and signals may stop at any time.
Fairness ==
    /\ WF_vars(Main) /\ WF_vars(Tick) /\ SF_vars(WriteSucceeds)
    /\ \A m \in Monitors : WF_vars(Notify(m) \/ MonitorStops(m))

FairSpec == Spec /\ Fairness

-----------------------------------------------------------------------------
(* Properties.                                                             *)

States == {"rebuild", "serialize", "write", "markSaved", "loop", "reindex", "join", "poll",
           "clear", "saveStart", "retry", "record", "flush", "exited"}

TypeOK ==
    /\ pc \in States /\ task \in {"initial", "reload", "reindex", "live", "exit"}
    /\ g_stop \in BOOLEAN /\ g_reloadSettings \in BOOLEAN /\ g_reindexNow \in BOOLEAN
    /\ monitorStop \in BOOLEAN /\ mon \in [Monitors -> {"off", "watching", "applied"}]
    /\ index \in Nat /\ file \in Nat /\ buf \in Nat
    /\ dirty \in BOOLEAN /\ interval \in Nat /\ took \in Int
    /\ elapsed \in Int /\ -back <= elapsed /\ elapsed <= Forever
    /\ changes \in Nat /\ signals \in Nat /\ back \in Nat
    /\ lost \in BOOLEAN /\ gap \in Nat /\ slip \in Int /\ lastTook \in Int

\* A live change the file does not hold is still going to be saved: the flag
\* is set or about to be set, or a save that will include it is under way.
\* This spans MarkDirty on the monitor threads, the clearing of the flag
\* before the save, the retry of a failed one and the flush at exit. A rebuild
\* that could not be written is left out (lost): MarkSaved then drops what was
\* pending, although it "already includes every pending change"
\* (SaveThrottle.h), and the file does not hold it.
SavingIt ==
    \/ pc \in {"saveStart", "serialize", "retry"}
    \/ pc = "write" /\ buf = index

ChangesStayPending ==
    index # file /\ ~lost =>
        dirty \/ SavingIt \/ \E m \in Monitors : mon[m] = "applied"

\* "An idle gap after each save of at least 2 s and at least 5x that save's
\* duration" (docs/adr/0008, RecordSaveDuration): when the next save is decided
\* on, at least that much time has passed since the last one ended, less the
\* time between deciding on that one and starting it, if the clock was never
\* set back.
IdleGap ==
    back = 0 /\ pc = "clear" => gap + slip >= Larger(MinInterval, kSaveCostFactor * lastTook)

\* "Live-monitoring changes in the helper are saved too" (docs/adr/0008): every
\* live change reaches the file, unless the helper is stopped first, could not
\* write a rebuild, or its clock was set back.
ChangesReachFile == index # file ~> (index = file \/ lost \/ pc = "exited" \/ back > 0)

\* SIGTERM ends the helper.
StopEnds == g_stop ~> pc = "exited"
=============================================================================
