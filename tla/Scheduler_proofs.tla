--------------------------- MODULE Scheduler_proofs ---------------------------
(***************************************************************************)
(* What Scheduler guarantees for every length of the chain, every number   *)
(* of startup attempts and every set of faults.  The inductive invariant   *)
(* SInv is type correctness, the startup attempts left, the exclusion of   *)
(* the jobs with what it protects, the queue and the shutdown's wait.      *)
(* RInv adds what keeps the bands fresh, outside the three windows that    *)
(* Attentive names.                                                        *)
(***************************************************************************)
EXTENDS Scheduler, TLAPS

\* The process that has used up its attempts has failed.
CountOK == attempts \in 0..MaxAttempts /\ (phase = "failed" \/ attempts < MaxAttempts)

\* A shutdown only waits while there is a job to wait for.
StopHasJob == stop = "waiting" => Busy

JobInv == AloneWithTheJournal /\ NoTriggerStranded /\ StopHasJob

SInv == TypeOK /\ CountOK /\ JobInv

-----------------------------------------------------------------------------
\* Blocks and cursors stay within the chain, which only grows.
LEMMA BlocksKept ==
  ASSUME TypeOK, CountOK, BlocksOK, [Next]_vars
  PROVE  BlocksOK'
<1> USE SchedulerAssumption
       DEF BlocksOK, Blocks, NoBlock, Running, chainVars, startVars, jobVars, durable, monitorVars
<1>1. CASE NewBlock
  BY <1>1 DEF NewBlock
<1>2. CASE Start
  BY <1>2 DEF Start, BotInit, BotInitFails, AttemptFails, Startup, RunAndRecord, Busy,
     FirstObservation, CanObserve, TimersStart
<1>3. CASE Clock
  BY <1>3 DEF Clock, Reconcile, RunAndRecord, Busy, Timers, DegradedFallback, Deadline
<1>4. CASE CycleHeld \/ CycleFails \/ CycleFinishes \/ CycleSendFails
  BY <1>4 DEF CycleHeld, CycleEnds, RunQueued, JobAwaited, AttemptFails, StartupSees, CycleFails,
     CycleFinishes, CycleSendFails
<1>5. CASE CycleRecovers \/ CycleSnapshots \/ CycleSends \/ CycleConfirms
  <2>1. CASE CycleRecovers
    BY <2>1 DEF CycleRecovers
  <2>2. CASE CycleSnapshots
    BY <2>2 DEF CycleSnapshots
  <2>3. CASE CycleSends
    BY <2>3 DEF CycleSends
  <2>4. CASE CycleConfirms
    BY <2>4 DEF CycleConfirms
  <2> QED
    BY <1>5, <2>1, <2>2, <2>3, <2>4
<1>6. CASE Poke
  BY <1>6 DEF Poke, PokeStarts, Timers, Busy, PokeEnds, RunQueued, JobAwaited
<1>7. CASE Relay
  BY <1>7 DEF Relay, RelayStarts, Timers, Busy, RelayFindsNone, RelayEnds, RunQueued, JobAwaited,
     RelaySends, RelayExecuted, RelayFails
<1>8. CASE Monitor
  <2>1. CASE MonitorStarts
    BY <2>1 DEF MonitorStarts, Timers, CanObserve
  <2>2. CASE MonitorReadsHead
    BY <2>2 DEF MonitorReadsHead, Observes, ActsOn, GoesUnrecorded, RunAndRecord, Busy
  <2>3. CASE MonitorScans
    BY <2>3 DEF Attentive, MonitorScans, Observes, ActsOn, GoesUnrecorded, RunAndRecord, Busy
  <2>4. CASE MonitorFails
    BY <2>4 DEF MonitorFails
  <2> QED
    BY <1>8, <2>1, <2>2, <2>3, <2>4 DEF Monitor
<1>9. CASE Stop
  BY <1>9 DEF Stop, Shutdown, Busy, ShutdownTimesOut
<1>10. CASE UNCHANGED vars
  BY <1>10 DEF vars
<1> QED
  BY <1>1, <1>2, <1>3, <1>4, <1>5, <1>6, <1>7, <1>8, <1>9, <1>10 DEF Next, Cycle

\* Every job and every phase is in one of its states.
LEMMA PhasesKept ==
  ASSUME TypeOK, CountOK, PhasesOK, [Next]_vars
  PROVE  PhasesOK'
<1> USE SchedulerAssumption
       DEF PhasesOK, Running, chainVars, startVars, jobVars, durable, monitorVars
<1>1. CASE NewBlock
  BY <1>1 DEF NewBlock
<1>2. CASE Start
  BY <1>2 DEF Start, BotInit, BotInitFails, AttemptFails, Startup, RunAndRecord, Busy,
     FirstObservation, CanObserve, TimersStart
<1>3. CASE Clock
  BY <1>3 DEF Clock, Reconcile, RunAndRecord, Busy, Timers, DegradedFallback, Deadline
<1>4. CASE CycleHeld \/ CycleFails \/ CycleFinishes \/ CycleSendFails
  <2>1. CASE CycleHeld
    BY <2>1 DEF CycleHeld, CycleEnds, RunQueued, JobAwaited, AttemptFails, StartupSees
  <2>2. CASE CycleFails
    BY <2>2 DEF CycleFails, CycleEnds, RunQueued, JobAwaited, AttemptFails, StartupSees
  <2>3. CASE CycleFinishes
    BY <2>3 DEF CycleFinishes, CycleEnds, RunQueued, JobAwaited, AttemptFails, StartupSees
  <2>4. CASE CycleSendFails
    BY <2>4 DEF CycleSendFails, CycleEnds, RunQueued, JobAwaited, AttemptFails, StartupSees
  <2> QED
    BY <1>4, <2>1, <2>2, <2>3, <2>4
<1>5. CASE CycleRecovers \/ CycleSnapshots \/ CycleSends \/ CycleConfirms
  BY <1>5 DEF CycleRecovers, CycleSnapshots, CycleSends, CycleConfirms
<1>6. CASE Poke
  BY <1>6 DEF Poke, PokeStarts, Timers, Busy, PokeEnds, RunQueued, JobAwaited
<1>7. CASE Relay
  BY <1>7 DEF Relay, RelayStarts, Timers, Busy, RelayFindsNone, RelayEnds, RunQueued, JobAwaited,
     RelaySends, RelayExecuted, RelayFails
<1>8. CASE Monitor
  BY <1>8 DEF Monitor, MonitorStarts, Timers, CanObserve, MonitorReadsHead, Observes,
     ActsOn, GoesUnrecorded, RunAndRecord, Busy, MonitorScans, MonitorFails
<1>9. CASE Stop
  BY <1>9 DEF Stop, Shutdown, Busy, ShutdownTimesOut
<1>10. CASE UNCHANGED vars
  BY <1>10 DEF vars
<1> QED
  BY <1>1, <1>2, <1>3, <1>4, <1>5, <1>6, <1>7, <1>8, <1>9, <1>10 DEF Next, Cycle

\* The flags stay Boolean.
LEMMA FlagsKept ==
  ASSUME TypeOK, CountOK, FlagsOK, [Next]_vars
  PROVE  FlagsOK'
<1> USE SchedulerAssumption
       DEF FlagsOK, Running, chainVars, startVars, jobVars, durable, monitorVars
<1>1. CASE NewBlock
  BY <1>1 DEF NewBlock
<1>2. CASE Start
  BY <1>2 DEF Start, BotInit, BotInitFails, AttemptFails, Startup, RunAndRecord, Busy,
     FirstObservation, CanObserve, TimersStart
<1>3. CASE Clock
  BY <1>3 DEF Clock, Reconcile, RunAndRecord, Busy, Timers, DegradedFallback, Deadline
<1>4. CASE CycleHeld \/ CycleFails \/ CycleFinishes \/ CycleSendFails
  BY <1>4 DEF CycleHeld, CycleEnds, RunQueued, JobAwaited, AttemptFails, StartupSees, CycleFails,
     CycleFinishes, CycleSendFails
<1>5. CASE CycleRecovers \/ CycleSnapshots \/ CycleSends \/ CycleConfirms
  BY <1>5 DEF CycleRecovers, CycleSnapshots, CycleSends, CycleConfirms
<1>6. CASE Poke
  BY <1>6 DEF Poke, PokeStarts, Timers, Busy, PokeEnds, RunQueued, JobAwaited
<1>7. CASE Relay
  BY <1>7 DEF Relay, RelayStarts, Timers, Busy, RelayFindsNone, RelayEnds, RunQueued, JobAwaited,
     RelaySends, RelayExecuted, RelayFails
<1>8. CASE Monitor
  BY <1>8 DEF Monitor, MonitorStarts, Timers, CanObserve, MonitorReadsHead, Observes,
     ActsOn, GoesUnrecorded, RunAndRecord, Busy, MonitorScans, MonitorFails
<1>9. CASE Stop
  BY <1>9 DEF Stop, Shutdown, Busy, ShutdownTimesOut
<1>10. CASE UNCHANGED vars
  BY <1>10 DEF vars
<1> QED
  BY <1>1, <1>2, <1>3, <1>4, <1>5, <1>6, <1>7, <1>8, <1>9, <1>10 DEF Next, Cycle

\* A failed attempt is counted, and the last one fails the process.
LEMMA CountKept ==
  ASSUME TypeOK, CountOK, CountOK, [Next]_vars
  PROVE  CountOK'
<1> USE SchedulerAssumption
       DEF CountOK, Running, chainVars, startVars, jobVars, durable, monitorVars
<1>1. CASE NewBlock
  BY <1>1 DEF NewBlock
<1>2. CASE Start
  <2>1. CASE BotInit
    BY <2>1 DEF BotInit
  <2>2. CASE BotInitFails
    BY <2>2 DEF BotInitFails, AttemptFails
  <2>3. CASE Startup
    BY <2>3 DEF Startup, AttemptFails, RunAndRecord, Busy
  <2>4. CASE FirstObservation
    BY <2>4 DEF FirstObservation, CanObserve
  <2>5. CASE TimersStart
    BY <2>5 DEF TimersStart
  <2> QED
    BY <1>2, <2>1, <2>2, <2>3, <2>4, <2>5 DEF Start
<1>3. CASE Clock
  BY <1>3 DEF Clock, Reconcile, RunAndRecord, Busy, Timers, DegradedFallback, Deadline
<1>4. CASE CycleHeld \/ CycleFails \/ CycleFinishes \/ CycleSendFails
  <2>1. CASE CycleHeld
    BY <2>1 DEF CycleHeld, CycleEnds, RunQueued, JobAwaited, AttemptFails, StartupSees
  <2>2. CASE CycleFails
    BY <2>2 DEF CycleFails, CycleEnds, RunQueued, JobAwaited, AttemptFails, StartupSees
  <2>3. CASE CycleFinishes
    BY <2>3 DEF CycleFinishes, CycleEnds, RunQueued, JobAwaited, AttemptFails, StartupSees
  <2>4. CASE CycleSendFails
    BY <2>4 DEF CycleSendFails, CycleEnds, RunQueued, JobAwaited, AttemptFails, StartupSees
  <2> QED
    BY <1>4, <2>1, <2>2, <2>3, <2>4
<1>5. CASE CycleRecovers \/ CycleSnapshots \/ CycleSends \/ CycleConfirms
  BY <1>5 DEF CycleRecovers, CycleSnapshots, CycleSends, CycleConfirms
<1>6. CASE Poke
  BY <1>6 DEF Poke, PokeStarts, Timers, Busy, PokeEnds, RunQueued, JobAwaited
<1>7. CASE Relay
  BY <1>7 DEF Relay, RelayStarts, Timers, Busy, RelayFindsNone, RelayEnds, RunQueued, JobAwaited,
     RelaySends, RelayExecuted, RelayFails
<1>8. CASE Monitor
  BY <1>8 DEF Monitor, MonitorStarts, Timers, CanObserve, MonitorReadsHead, Observes,
     ActsOn, GoesUnrecorded, RunAndRecord, Busy, MonitorScans, MonitorFails
<1>9. CASE Stop
  BY <1>9 DEF Stop, Shutdown, Busy, ShutdownTimesOut
<1>10. CASE UNCHANGED vars
  BY <1>10 DEF vars
<1> QED
  BY <1>1, <1>2, <1>3, <1>4, <1>5, <1>6, <1>7, <1>8, <1>9, <1>10 DEF Next, Cycle

\* Every step that starts a job finds no other; every step that ends one runs
\* what was queued, or ends the process.
LEMMA JobsKept ==
  ASSUME TypeOK, CountOK, JobInv, [Next]_vars
  PROVE  JobInv'
<1> USE SchedulerAssumption
       DEF JobInv, AloneWithTheJournal, NoTriggerStranded, StopHasJob, Busy, Running, chainVars, startVars, jobVars, durable, monitorVars
<1>1. CASE NewBlock
  BY <1>1 DEF NewBlock
<1>2. CASE Start
  <2>1. CASE BotInit
    <3>1. (cycle = "reading" \/ relay = "polling" => ~pending)'
      BY <2>1 DEF BotInit
    <3>2. (relay # "none" => ~owed)'
      BY <2>1 DEF BotInit
    <3> QED
      BY <2>1, <3>1, <3>2 DEF BotInit
  <2>2. CASE BotInitFails
    BY <2>2 DEF BotInitFails, AttemptFails
  <2>3. CASE Startup
    BY <2>3 DEF Startup, AttemptFails, RunAndRecord, Busy
  <2>4. CASE FirstObservation
    BY <2>4 DEF FirstObservation, CanObserve
  <2>5. CASE TimersStart
    BY <2>5 DEF TimersStart
  <2> QED
    BY <1>2, <2>1, <2>2, <2>3, <2>4, <2>5 DEF Start
<1>3. CASE Clock
  BY <1>3 DEF Clock, Reconcile, RunAndRecord, Busy, Timers, DegradedFallback, Deadline
<1>4. CASE CycleHeld \/ CycleFails \/ CycleFinishes \/ CycleSendFails
  <2>1. CASE CycleHeld
    BY <2>1 DEF CycleHeld, CycleEnds, RunQueued, JobAwaited, AttemptFails, StartupSees
  <2>2. CASE CycleFails
    BY <2>2 DEF CycleFails, CycleEnds, RunQueued, JobAwaited, AttemptFails, StartupSees
  <2>3. CASE CycleFinishes
    BY <2>3 DEF CycleFinishes, CycleEnds, RunQueued, JobAwaited, AttemptFails, StartupSees
  <2>4. CASE CycleSendFails
    <3>1. CASE CycleEnds(FALSE)
      <4>1. cycle' \in {"none", "begun"} /\ relay' = relay /\ relay = "none" /\ ~poke
        BY <2>4, <3>1 DEF CycleSendFails, CycleEnds, RunQueued
      <4>2. AloneWithTheJournal'
        BY <3>1, <4>1 DEF CycleEnds, RunQueued
      <4>3. NoTriggerStranded' /\ StopHasJob'
        BY <3>1 DEF CycleEnds, RunQueued, JobAwaited, PhasesOK, TypeOK
      <4> QED
        BY <4>2, <4>3
    <3>2. CASE cycle' = "acting" /\ UNCHANGED <<chainVars, startVars, snapAt, poke, relay, queued, monitorVars, stop>>
      BY <2>4, <3>2 DEF CycleSendFails
    <3> QED
      BY <2>4, <3>1, <3>2 DEF CycleSendFails
  <2> QED
    BY <1>4, <2>1, <2>2, <2>3, <2>4
<1>5. CASE CycleRecovers \/ CycleSnapshots \/ CycleSends \/ CycleConfirms
  <2>1. CASE CycleRecovers
    BY <2>1 DEF CycleRecovers
  <2>2. CASE CycleSnapshots
    BY <2>2 DEF CycleSnapshots
  <2>3. CASE CycleSends
    BY <2>3 DEF CycleSends
  <2>4. CASE CycleConfirms
    BY <2>4 DEF CycleConfirms
  <2> QED
    BY <1>5, <2>1, <2>2, <2>3, <2>4
<1>6. CASE Poke
  BY <1>6 DEF Poke, PokeStarts, Timers, Busy, PokeEnds, RunQueued, JobAwaited
<1>7. CASE Relay
  BY <1>7 DEF Relay, RelayStarts, Timers, Busy, RelayFindsNone, RelayEnds, RunQueued, JobAwaited,
     RelaySends, RelayExecuted, RelayFails
<1>8. CASE Monitor
  BY <1>8 DEF Monitor, MonitorStarts, Timers, CanObserve, MonitorReadsHead, Observes,
     ActsOn, GoesUnrecorded, RunAndRecord, Busy, MonitorScans, MonitorFails
<1>9. CASE Stop
  BY <1>9 DEF Stop, Shutdown, Busy, ShutdownTimesOut
<1>10. CASE UNCHANGED vars
  BY <1>10 DEF vars
<1> QED
  BY <1>1, <1>2, <1>3, <1>4, <1>5, <1>6, <1>7, <1>8, <1>9, <1>10 DEF Next, Cycle

-----------------------------------------------------------------------------
LEMMA InitSInv == Init => SInv
<1> SUFFICES ASSUME Init PROVE SInv
  OBVIOUS
<1> USE SchedulerAssumption DEF Init
<1>1. BlocksOK
  BY DEF BlocksOK, Blocks, NoBlock
<1>2. PhasesOK
  BY DEF PhasesOK
<1>3. FlagsOK
  BY DEF FlagsOK
<1>4. CountOK
  BY DEF CountOK
<1>5. JobInv
  BY DEF JobInv, AloneWithTheJournal, NoTriggerStranded, StopHasJob, Busy
<1> QED
  BY <1>1, <1>2, <1>3, <1>4, <1>5 DEF SInv, TypeOK, CountOK

LEMMA SInvKept == SInv /\ [Next]_vars => SInv'
BY BlocksKept, PhasesKept, FlagsKept, CountKept, JobsKept DEF SInv, TypeOK, CountOK

LEMMA SInvHolds == Spec => []SInv
BY InitSInv, SInvKept, PTL DEF Spec

\* Every variable keeps its type, whatever fails and in whatever order the
\* answers arrive.
THEOREM TypeCorrect == Spec => []TypeOK
<1>1. SInv => TypeOK
  BY DEF SInv
<1> QED
  BY <1>1, SInvHolds, PTL

\* One job at a time, alone with the journal from recovery (or from the guard of
\* runSafeRelay) to its send, and no relay beside an owed swap.
THEOREM JobsExclude == Spec => []AloneWithTheJournal
<1>1. SInv => AloneWithTheJournal
  BY DEF SInv, JobInv
<1> QED
  BY <1>1, SInvHolds, PTL

\* queuedTrigger always has a job whose clear() will read it.
THEOREM QueueIsDrained == Spec => []NoTriggerStranded
<1>1. SInv => NoTriggerStranded
  BY DEF SInv, JobInv
<1> QED
  BY <1>1, SInvHolds, PTL

\* The action of NothingStartsWhileStopping.
NothingStarts ==
  stop = "waiting" /\ stop' = "waiting" =>
    /\ (cycle = "none" => cycle' = "none")
    /\ (cycle' = "begun" => cycle = "begun")
    /\ (poke' => poke)
    /\ (relay' # "none" => relay # "none")

LEMMA StopStep == SInv /\ [Next]_vars => NothingStarts
<1> SUFFICES ASSUME SInv, [Next]_vars PROVE NothingStarts
  OBVIOUS
<1> USE DEF NothingStarts, SInv, JobInv, StopHasJob, Running, chainVars, startVars, jobVars,
        durable, monitorVars
<1>1. CASE NewBlock
  BY <1>1 DEF NewBlock, Busy
<1>2. CASE Start
  BY <1>2 DEF Start, BotInit, BotInitFails, Startup, RunAndRecord, Busy, FirstObservation,
     CanObserve, TimersStart
<1>3. CASE Clock
  BY <1>3 DEF Clock, Reconcile, RunAndRecord, Busy, Timers, DegradedFallback, Deadline
<1>4. CASE CycleHeld \/ CycleFails \/ CycleFinishes \/ CycleSendFails
  BY <1>4 DEF CycleHeld, CycleEnds, RunQueued, JobAwaited, CycleFails, CycleFinishes,
     CycleSendFails, Busy
<1>5. CASE CycleRecovers \/ CycleSnapshots \/ CycleSends \/ CycleConfirms
  BY <1>5 DEF CycleRecovers, CycleSnapshots, CycleSends, CycleConfirms, Busy
<1>6. CASE Poke
  BY <1>6 DEF Poke, PokeStarts, Timers, Busy, PokeEnds, RunQueued, JobAwaited
<1>7. CASE Relay
  BY <1>7 DEF Relay, RelayStarts, Timers, Busy, RelayFindsNone, RelayEnds, RunQueued, JobAwaited,
     RelaySends, RelayExecuted, RelayFails
<1>8. CASE Monitor
  BY <1>8 DEF Monitor, MonitorStarts, Timers, CanObserve, MonitorReadsHead, Observes,
     ActsOn, GoesUnrecorded, RunAndRecord, Busy, MonitorScans, MonitorFails
<1>9. CASE Stop
  BY <1>9 DEF Stop, Shutdown, Busy, ShutdownTimesOut
<1>10. CASE UNCHANGED vars
  BY <1>10 DEF vars
<1> QED
  BY <1>1, <1>2, <1>3, <1>4, <1>5, <1>6, <1>7, <1>8, <1>9, <1>10 DEF Next, Cycle

\* While a shutdown waits for its job nothing new starts, the queue included.
THEOREM StoppingStartsNothing == Spec => NothingStartsWhileStopping
<1>1. SInv /\ [Next]_vars => [NothingStarts]_vars
  BY StopStep
<1> QED
  BY <1>1, SInvHolds, PTL DEF Spec, NothingStartsWhileStopping, NothingStarts

-----------------------------------------------------------------------------
(***************************************************************************)
(* No event is lost between scan, snapshot and action.  Bands that do not  *)
(* stand for what has been consumed are excused while something renews     *)
(* them; what has to be kept is that the excuse is handed on by every step *)
(* that ends a job, and that a scan and a snapshot each hand the other     *)
(* what it missed.  Attentive leaves out the steps that do neither.        *)
(***************************************************************************)
UpToDate(block) == block # NoBlock /\ ~ChangedIn(block + 1, cursor)

\* What will rebuild the bands: the startup cycle, a cycle that has not taken its
\* snapshot, a queued one, or an intent left to settle.
Renewing ==
  \/ phase \in {"init", "starting", "failed"}
  \/ cycle \in {"begun", "reading"}
  \/ queued
  \/ pending /\ cycle # "sending" /\ relay # "sending"

\* As long as the cursor is unset, the bot is starting, holds an intent, or is on
\* its way to its first snapshot, which will set it.
CursorUnset ==
  cursor = NoBlock =>
    /\ bands = NoBlock /\ relay = "none" /\ cycle \in {"none", "begun", "reading"}
    /\ monitor # "logs"
    /\ phase \in {"init", "starting", "trying", "failed"} => monitor = "idle"
    /\ \/ phase \in {"init", "starting", "trying", "failed"}
       \/ pending \/ cycle \in {"begun", "reading"}

\* The blocks a scan asked for begin no later than the cursor has come since.
ScanInOrder == monitor = "logs" => from \in Blocks /\ seen \in Blocks /\ from <= cursor

SnapshotUpToDate ==
  cycle = "reading" => snapAt # NoBlock /\ (queued \/ UpToDate(snapAt))

BandsUpToDate == Renewing \/ UpToDate(bands)

RInv == CursorUnset /\ ScanInOrder /\ SnapshotUpToDate /\ BandsUpToDate

\* Until the cursor is set the bot sends nothing, and what it holds is pending.
LEMMA UnsetKept ==
  ASSUME SInv, RInv, Next, Attentive
  PROVE  CursorUnset'
<1> USE SchedulerAssumption
       DEF RInv, CursorUnset, ScanInOrder, SnapshotUpToDate, SInv, AloneWithTheJournal, JobInv, TypeOK, BlocksOK, PhasesOK, FlagsOK, Blocks, NoBlock,
           Running, chainVars, startVars, jobVars, durable, monitorVars
<1>1. CASE NewBlock
  BY <1>1 DEF NewBlock
<1>2. CASE Start
  <2>1. CASE BotInit
    BY <2>1 DEF BotInit
  <2>2. CASE BotInitFails
    BY <2>2 DEF BotInitFails, AttemptFails
  <2>3. CASE Startup
    BY <2>3 DEF Startup, AttemptFails, RunAndRecord, Busy
  <2>4. CASE FirstObservation
    BY <2>4 DEF FirstObservation, CanObserve
  <2>5. CASE TimersStart
    BY <2>5 DEF TimersStart
  <2> QED
    BY <1>2, <2>1, <2>2, <2>3, <2>4, <2>5 DEF Start
<1>3. CASE Clock
  <2>1. CASE Reconcile
    BY <2>1 DEF Reconcile, RunAndRecord, Busy, Timers
  <2>2. CASE DegradedFallback
    BY <2>2 DEF DegradedFallback, RunAndRecord, Busy, Timers
  <2>3. CASE Deadline
    BY <2>3 DEF Deadline
  <2> QED
    BY <1>3, <2>1, <2>2, <2>3 DEF Clock
<1>4. CASE Cycle
  <2>1. CASE CycleRecovers
    BY <2>1 DEF CycleRecovers
  <2>2. CASE CycleHeld
    BY <2>2 DEF CycleHeld, CycleEnds, StartupSees, AttemptFails, RunQueued, JobAwaited
  <2>3. CASE CycleFails
    BY <2>3 DEF CycleFails, Attentive, CycleEnds, StartupSees, AttemptFails, RunQueued, JobAwaited
  <2>4. CASE CycleSnapshots
    BY <2>4 DEF CycleSnapshots
  <2>5. CASE CycleFinishes
    BY <2>5 DEF CycleFinishes, CycleEnds, StartupSees, AttemptFails, RunQueued, JobAwaited
  <2>6. CASE CycleSends
    BY <2>6 DEF CycleSends
  <2>7. CASE CycleConfirms
    BY <2>7 DEF CycleConfirms
  <2>8. CASE CycleSendFails
    BY <2>8 DEF CycleSendFails, CycleEnds, StartupSees, AttemptFails, RunQueued, JobAwaited
  <2> QED
    BY <1>4, <2>1, <2>2, <2>3, <2>4, <2>5, <2>6, <2>7, <2>8 DEF Cycle
<1>5. CASE Poke
  <2>1. CASE PokeStarts
    BY <2>1 DEF PokeStarts, Timers, Busy
  <2>2. CASE PokeEnds
    BY <2>2 DEF PokeEnds, RunQueued, JobAwaited
  <2> QED
    BY <1>5, <2>1, <2>2 DEF Poke
<1>6. CASE Relay
  <2>1. CASE RelayStarts
    BY <2>1 DEF RelayStarts, Timers, Busy
  <2>2. CASE RelayFindsNone
    BY <2>2 DEF RelayFindsNone, RelayEnds, RunQueued, JobAwaited
  <2>3. CASE RelaySends
    BY <2>3 DEF RelaySends
  <2>4. CASE RelayExecuted
    BY <2>4 DEF RelayExecuted, RelayEnds, RunQueued, JobAwaited
  <2>5. CASE RelayFails
    BY <2>5 DEF RelayFails, RelayEnds, RunQueued, JobAwaited
  <2> QED
    BY <1>6, <2>1, <2>2, <2>3, <2>4, <2>5 DEF Relay
<1>7. CASE Monitor
  <2>1. CASE MonitorStarts
    BY <2>1 DEF MonitorStarts, Timers, CanObserve
  <2>2. CASE MonitorReadsHead
    BY <2>2 DEF Attentive, MonitorReadsHead, Observes, ActsOn, GoesUnrecorded, RunAndRecord, Busy
  <2>3. CASE MonitorScans
    BY <2>3 DEF Attentive, MonitorScans, Observes, ActsOn, GoesUnrecorded, RunAndRecord, Busy
  <2>4. CASE MonitorFails
    BY <2>4 DEF MonitorFails
  <2> QED
    BY <1>7, <2>1, <2>2, <2>3, <2>4 DEF Monitor
<1>8. CASE Stop
  <2>1. CASE Shutdown
    BY <2>1 DEF Shutdown, Busy
  <2>2. CASE ShutdownTimesOut
    BY <2>2 DEF ShutdownTimesOut
  <2> QED
    BY <1>8, <2>1, <2>2 DEF Stop
<1> QED
  BY <1>1, <1>2, <1>3, <1>4, <1>5, <1>6, <1>7, <1>8 DEF Next

\* A snapshot only moves the cursor forward under a scan.
LEMMA ScanKept ==
  ASSUME SInv, RInv, Next, Attentive
  PROVE  ScanInOrder'
<1> USE SchedulerAssumption
       DEF RInv, CursorUnset, ScanInOrder, SInv, TypeOK, BlocksOK, PhasesOK, FlagsOK, Blocks, NoBlock,
           Running, chainVars, startVars, jobVars, durable, monitorVars
<1>1. CASE NewBlock
  BY <1>1 DEF NewBlock
<1>2. CASE Start
  <2>1. CASE BotInit
    BY <2>1 DEF BotInit
  <2>2. CASE BotInitFails
    BY <2>2 DEF BotInitFails, AttemptFails
  <2>3. CASE Startup
    BY <2>3 DEF Startup, AttemptFails, RunAndRecord, Busy
  <2>4. CASE FirstObservation
    BY <2>4 DEF FirstObservation, CanObserve
  <2>5. CASE TimersStart
    BY <2>5 DEF TimersStart
  <2> QED
    BY <1>2, <2>1, <2>2, <2>3, <2>4, <2>5 DEF Start
<1>3. CASE Clock
  <2>1. CASE Reconcile
    BY <2>1 DEF Reconcile, RunAndRecord, Busy, Timers
  <2>2. CASE DegradedFallback
    BY <2>2 DEF DegradedFallback, RunAndRecord, Busy, Timers
  <2>3. CASE Deadline
    BY <2>3 DEF Deadline
  <2> QED
    BY <1>3, <2>1, <2>2, <2>3 DEF Clock
<1>4. CASE Cycle
  <2>1. CASE CycleRecovers
    BY <2>1 DEF CycleRecovers
  <2>2. CASE CycleHeld
    BY <2>2 DEF CycleHeld, CycleEnds, StartupSees, AttemptFails, RunQueued, JobAwaited
  <2>3. CASE CycleFails
    BY <2>3 DEF CycleFails, Attentive, CycleEnds, StartupSees, AttemptFails, RunQueued, JobAwaited
  <2>4. CASE CycleSnapshots
    BY <2>4 DEF CycleSnapshots
  <2>5. CASE CycleFinishes
    BY <2>5 DEF CycleFinishes, CycleEnds, StartupSees, AttemptFails, RunQueued, JobAwaited
  <2>6. CASE CycleSends
    BY <2>6 DEF CycleSends
  <2>7. CASE CycleConfirms
    BY <2>7 DEF CycleConfirms
  <2>8. CASE CycleSendFails
    BY <2>8 DEF CycleSendFails, CycleEnds, StartupSees, AttemptFails, RunQueued, JobAwaited
  <2> QED
    BY <1>4, <2>1, <2>2, <2>3, <2>4, <2>5, <2>6, <2>7, <2>8 DEF Cycle
<1>5. CASE Poke
  <2>1. CASE PokeStarts
    BY <2>1 DEF PokeStarts, Timers, Busy
  <2>2. CASE PokeEnds
    BY <2>2 DEF PokeEnds, RunQueued, JobAwaited
  <2> QED
    BY <1>5, <2>1, <2>2 DEF Poke
<1>6. CASE Relay
  <2>1. CASE RelayStarts
    BY <2>1 DEF RelayStarts, Timers, Busy
  <2>2. CASE RelayFindsNone
    BY <2>2 DEF RelayFindsNone, RelayEnds, RunQueued, JobAwaited
  <2>3. CASE RelaySends
    BY <2>3 DEF RelaySends
  <2>4. CASE RelayExecuted
    BY <2>4 DEF RelayExecuted, RelayEnds, RunQueued, JobAwaited
  <2>5. CASE RelayFails
    BY <2>5 DEF RelayFails, RelayEnds, RunQueued, JobAwaited
  <2> QED
    BY <1>6, <2>1, <2>2, <2>3, <2>4, <2>5 DEF Relay
<1>7. CASE Monitor
  <2>1. CASE MonitorStarts
    BY <2>1 DEF MonitorStarts, Timers, CanObserve
  <2>2. CASE MonitorReadsHead
    BY <2>2 DEF Attentive, MonitorReadsHead, Observes, ActsOn, GoesUnrecorded, RunAndRecord, Busy
  <2>3. CASE MonitorScans
    BY <2>3 DEF Attentive, MonitorScans, Observes, ActsOn, GoesUnrecorded, RunAndRecord, Busy
  <2>4. CASE MonitorFails
    BY <2>4 DEF MonitorFails
  <2> QED
    BY <1>7, <2>1, <2>2, <2>3, <2>4 DEF Monitor
<1>8. CASE Stop
  <2>1. CASE Shutdown
    BY <2>1 DEF Shutdown, Busy
  <2>2. CASE ShutdownTimesOut
    BY <2>2 DEF ShutdownTimesOut
  <2> QED
    BY <1>8, <2>1, <2>2 DEF Stop
<1> QED
  BY <1>1, <1>2, <1>3, <1>4, <1>5, <1>6, <1>7, <1>8 DEF Next

\* A scan that passes a snapshot being read queues another cycle if it found anything.
LEMMA SnapshotKept ==
  ASSUME SInv, RInv, Next, Attentive
  PROVE  SnapshotUpToDate'
<1> USE SchedulerAssumption
       DEF RInv, CursorUnset, ScanInOrder, SnapshotUpToDate, UpToDate, ChangedIn,
           SInv, TypeOK, BlocksOK, PhasesOK, FlagsOK, Blocks, NoBlock, Running, chainVars, startVars, jobVars, durable, monitorVars
<1>1. CASE NewBlock
  BY <1>1 DEF NewBlock
<1>2. CASE Start
  <2>1. CASE BotInit
    BY <2>1 DEF BotInit
  <2>2. CASE BotInitFails
    BY <2>2 DEF BotInitFails, AttemptFails
  <2>3. CASE Startup
    BY <2>3 DEF Startup, AttemptFails, RunAndRecord, Busy
  <2>4. CASE FirstObservation
    BY <2>4 DEF FirstObservation, CanObserve
  <2>5. CASE TimersStart
    BY <2>5 DEF TimersStart
  <2> QED
    BY <1>2, <2>1, <2>2, <2>3, <2>4, <2>5 DEF Start
<1>3. CASE Clock
  <2>1. CASE Reconcile
    BY <2>1 DEF Reconcile, RunAndRecord, Busy, Timers
  <2>2. CASE DegradedFallback
    BY <2>2 DEF DegradedFallback, RunAndRecord, Busy, Timers
  <2>3. CASE Deadline
    BY <2>3 DEF Deadline
  <2> QED
    BY <1>3, <2>1, <2>2, <2>3 DEF Clock
<1>4. CASE Cycle
  <2>1. CASE CycleRecovers
    BY <2>1 DEF CycleRecovers
  <2>2. CASE CycleHeld
    BY <2>2 DEF CycleHeld, CycleEnds, StartupSees, AttemptFails, RunQueued, JobAwaited
  <2>3. CASE CycleFails
    BY <2>3 DEF CycleFails, Attentive, CycleEnds, StartupSees, AttemptFails, RunQueued, JobAwaited
  <2>4. CASE CycleSnapshots
    BY <2>4 DEF CycleSnapshots
  <2>5. CASE CycleFinishes
    BY <2>5 DEF CycleFinishes, CycleEnds, StartupSees, AttemptFails, RunQueued, JobAwaited
  <2>6. CASE CycleSends
    BY <2>6 DEF CycleSends
  <2>7. CASE CycleConfirms
    BY <2>7 DEF CycleConfirms
  <2>8. CASE CycleSendFails
    BY <2>8 DEF CycleSendFails, CycleEnds, StartupSees, AttemptFails, RunQueued, JobAwaited
  <2> QED
    BY <1>4, <2>1, <2>2, <2>3, <2>4, <2>5, <2>6, <2>7, <2>8 DEF Cycle
<1>5. CASE Poke
  <2>1. CASE PokeStarts
    BY <2>1 DEF PokeStarts, Timers, Busy
  <2>2. CASE PokeEnds
    BY <2>2 DEF PokeEnds, RunQueued, JobAwaited
  <2> QED
    BY <1>5, <2>1, <2>2 DEF Poke
<1>6. CASE Relay
  <2>1. CASE RelayStarts
    BY <2>1 DEF RelayStarts, Timers, Busy
  <2>2. CASE RelayFindsNone
    BY <2>2 DEF RelayFindsNone, RelayEnds, RunQueued, JobAwaited
  <2>3. CASE RelaySends
    BY <2>3 DEF RelaySends
  <2>4. CASE RelayExecuted
    BY <2>4 DEF RelayExecuted, RelayEnds, RunQueued, JobAwaited
  <2>5. CASE RelayFails
    BY <2>5 DEF RelayFails, RelayEnds, RunQueued, JobAwaited
  <2> QED
    BY <1>6, <2>1, <2>2, <2>3, <2>4, <2>5 DEF Relay
<1>7. CASE Monitor
  <2>1. CASE MonitorStarts
    BY <2>1 DEF MonitorStarts, Timers, CanObserve
  <2>2. CASE MonitorReadsHead
    BY <2>2 DEF Attentive, MonitorReadsHead, Observes, ActsOn, GoesUnrecorded, RunAndRecord, Busy
  <2>3. CASE MonitorScans
    BY <2>3 DEF Attentive, MonitorScans, Observes, ActsOn, GoesUnrecorded, RunAndRecord, Busy
  <2>4. CASE MonitorFails
    BY <2>4 DEF MonitorFails
  <2> QED
    BY <1>7, <2>1, <2>2, <2>3, <2>4 DEF Monitor
<1>8. CASE Stop
  <2>1. CASE Shutdown
    BY <2>1 DEF Shutdown, Busy
  <2>2. CASE ShutdownTimesOut
    BY <2>2 DEF ShutdownTimesOut
  <2> QED
    BY <1>8, <2>1, <2>2 DEF Stop
<1> QED
  BY <1>1, <1>2, <1>3, <1>4, <1>5, <1>6, <1>7, <1>8 DEF Next

\* Whatever ends a renewal starts another, or leaves bands that are up to date.
LEMMA BandsKept ==
  ASSUME SInv, RInv, Next, Attentive
  PROVE  BandsUpToDate'
<1> USE SchedulerAssumption
       DEF RInv, CursorUnset, ScanInOrder, SnapshotUpToDate, BandsUpToDate, Renewing,
           UpToDate, ChangedIn, JobInv, AloneWithTheJournal, SInv, TypeOK, BlocksOK, PhasesOK, FlagsOK, Blocks, NoBlock, Running, chainVars, startVars, jobVars, durable, monitorVars
<1>1. CASE NewBlock
  BY <1>1 DEF NewBlock
<1>2. CASE Start
  <2>1. CASE BotInit
    BY <2>1 DEF BotInit
  <2>2. CASE BotInitFails
    BY <2>2 DEF BotInitFails, AttemptFails
  <2>3. CASE Startup
    BY <2>3 DEF Startup, AttemptFails, RunAndRecord, Busy
  <2>4. CASE FirstObservation
    BY <2>4 DEF FirstObservation, CanObserve
  <2>5. CASE TimersStart
    BY <2>5 DEF TimersStart
  <2> QED
    BY <1>2, <2>1, <2>2, <2>3, <2>4, <2>5 DEF Start
<1>3. CASE Clock
  <2>1. CASE Reconcile
    BY <2>1 DEF Reconcile, RunAndRecord, Busy, Timers
  <2>2. CASE DegradedFallback
    BY <2>2 DEF DegradedFallback, RunAndRecord, Busy, Timers
  <2>3. CASE Deadline
    BY <2>3 DEF Deadline
  <2> QED
    BY <1>3, <2>1, <2>2, <2>3 DEF Clock
<1>4. CASE Cycle
  <2>1. CASE CycleRecovers
    BY <2>1 DEF CycleRecovers
  <2>2. CASE CycleHeld
    BY <2>2 DEF CycleHeld, CycleEnds, StartupSees, AttemptFails, RunQueued, JobAwaited
  <2>3. CASE CycleFails
    BY <2>3 DEF CycleFails, Attentive, CycleEnds, StartupSees, AttemptFails, RunQueued, JobAwaited
  <2>4. CASE CycleSnapshots
    BY <2>4 DEF CycleSnapshots
  <2>5. CASE CycleFinishes
    BY <2>5 DEF CycleFinishes, CycleEnds, StartupSees, AttemptFails, RunQueued, JobAwaited
  <2>6. CASE CycleSends
    BY <2>6 DEF CycleSends
  <2>7. CASE CycleConfirms
    BY <2>7 DEF CycleConfirms
  <2>8. CASE CycleSendFails
    BY <2>8 DEF CycleSendFails, CycleEnds, StartupSees, AttemptFails, RunQueued, JobAwaited
  <2> QED
    BY <1>4, <2>1, <2>2, <2>3, <2>4, <2>5, <2>6, <2>7, <2>8 DEF Cycle
<1>5. CASE Poke
  <2>1. CASE PokeStarts
    BY <2>1 DEF PokeStarts, Timers, Busy
  <2>2. CASE PokeEnds
    BY <2>2 DEF PokeEnds, RunQueued, JobAwaited
  <2> QED
    BY <1>5, <2>1, <2>2 DEF Poke
<1>6. CASE Relay
  <2>1. CASE RelayStarts
    BY <2>1 DEF RelayStarts, Timers, Busy
  <2>2. CASE RelayFindsNone
    BY <2>2 DEF RelayFindsNone, RelayEnds, RunQueued, JobAwaited
  <2>3. CASE RelaySends
    BY <2>3 DEF RelaySends
  <2>4. CASE RelayExecuted
    BY <2>4 DEF RelayExecuted, RelayEnds, RunQueued, JobAwaited
  <2>5. CASE RelayFails
    BY <2>5 DEF RelayFails, RelayEnds, RunQueued, JobAwaited
  <2> QED
    BY <1>6, <2>1, <2>2, <2>3, <2>4, <2>5 DEF Relay
<1>7. CASE Monitor
  <2>1. CASE MonitorStarts
    BY <2>1 DEF MonitorStarts, Timers, CanObserve
  <2>2. CASE MonitorReadsHead
    BY <2>2 DEF Attentive, MonitorReadsHead, Observes, ActsOn, GoesUnrecorded, RunAndRecord, Busy
  <2>3. CASE MonitorScans
    BY <2>3 DEF Attentive, MonitorScans, Observes, ActsOn, GoesUnrecorded, RunAndRecord, Busy
  <2>4. CASE MonitorFails
    BY <2>4 DEF MonitorFails
  <2> QED
    BY <1>7, <2>1, <2>2, <2>3, <2>4 DEF Monitor
<1>8. CASE Stop
  <2>1. CASE Shutdown
    BY <2>1 DEF Shutdown, Busy
  <2>2. CASE ShutdownTimesOut
    BY <2>2 DEF ShutdownTimesOut
  <2> QED
    BY <1>8, <2>1, <2>2 DEF Stop
<1> QED
  BY <1>1, <1>2, <1>3, <1>4, <1>5, <1>6, <1>7, <1>8 DEF Next

LEMMA InitRInv == Init => RInv
BY DEF Init, RInv, CursorUnset, ScanInOrder, SnapshotUpToDate, BandsUpToDate, Renewing

LEMMA RInvStep == ASSUME SInv, RInv, [Next /\ Attentive]_vars PROVE RInv'
<1>1. CASE Next /\ Attentive
  BY <1>1, UnsetKept, ScanKept, SnapshotKept, BandsKept DEF RInv
<1>2. CASE UNCHANGED vars
  BY <1>2 DEF vars, chainVars, startVars, jobVars, durable, monitorVars, RInv, CursorUnset,
     ScanInOrder, SnapshotUpToDate, BandsUpToDate, Renewing, UpToDate, ChangedIn
<1> QED
  BY <1>1, <1>2

LEMMA RInvHolds == AttentiveSpec => [](SInv /\ RInv)
<1>1. SInv /\ RInv /\ [Next /\ Attentive]_vars => (SInv /\ RInv)'
  BY RInvStep, SInvKept
<1> QED
  BY <1>1, InitSInv, InitRInv, PTL DEF AttentiveSpec

\* The bot never sleeps, with nothing running, queued, pending or in doubt, on
\* bands older than an account change it has consumed, whatever cycles fail and
\* whatever the start finds, outside the three windows that Attentive names.
THEOREM BandsAreFresh == AttentiveSpec => []SleepsOnFreshBands
<1>1. SInv /\ RInv => SleepsOnFreshBands
  BY DEF SInv, JobInv, NoTriggerStranded, Running, RInv, BandsUpToDate, Renewing, UpToDate,
     SleepsOnFreshBands, Quiet, Busy
<1> QED
  BY <1>1, RInvHolds, PTL

-----------------------------------------------------------------------------
(***************************************************************************)
(* A bot that starts with an empty journal, whose cycles do not fail ahead *)
(* of their snapshot and whose state file takes every patch never meets    *)
(* the three windows.                                                      *)
(***************************************************************************)
Calm == Faults \cap {"pendingAtStart", "cycleFails", "heartbeat"} = {}

\* The cursor's first value is a snapshot's: the monitor never seeds it.
CursorFromSnapshot ==
  cursor = NoBlock =>
    /\ phase \in {"init", "starting", "trying", "failed"}
    /\ cycle \in {"none", "begun", "reading"} /\ relay = "none" /\ ~pending
    /\ monitor = "idle" /\ bands = NoBlock

\* Before its first snapshot the bot neither sends nor observes.
LEMMA CursorKept ==
  ASSUME Calm, SInv, RInv, CursorFromSnapshot, [Next]_vars
  PROVE  CursorFromSnapshot'
<1> USE SchedulerAssumption
       DEF RInv, CursorFromSnapshot, ScanInOrder, SnapshotUpToDate, SInv, TypeOK, BlocksOK, PhasesOK, FlagsOK, Blocks, NoBlock,
           Running, chainVars, startVars, jobVars, durable, monitorVars
<1>1. CASE NewBlock
  BY <1>1 DEF NewBlock
<1>2. CASE Start
  <2>1. CASE BotInit
    BY <2>1 DEF BotInit
  <2>2. CASE BotInitFails
    BY <2>2 DEF BotInitFails, AttemptFails
  <2>3. CASE Startup
    BY <2>3 DEF Startup, AttemptFails, RunAndRecord, Busy
  <2>4. CASE FirstObservation
    BY <2>4 DEF FirstObservation, CanObserve
  <2>5. CASE TimersStart
    BY <2>5 DEF TimersStart
  <2> QED
    BY <1>2, <2>1, <2>2, <2>3, <2>4, <2>5 DEF Start
<1>3. CASE Clock
  <2>1. CASE Reconcile
    BY <2>1 DEF Reconcile, RunAndRecord, Busy, Timers
  <2>2. CASE DegradedFallback
    BY <2>2 DEF DegradedFallback, RunAndRecord, Busy, Timers
  <2>3. CASE Deadline
    BY <2>3 DEF Deadline
  <2> QED
    BY <1>3, <2>1, <2>2, <2>3 DEF Clock
<1>4. CASE Cycle
  <2>1. CASE CycleRecovers
    BY <2>1 DEF CycleRecovers
  <2>2. CASE CycleHeld
    BY <2>2 DEF CycleHeld, CycleEnds, StartupSees, AttemptFails, RunQueued, JobAwaited
  <2>3. CASE CycleFails
    BY <2>3 DEF CycleFails, Calm
  <2>4. CASE CycleSnapshots
    BY <2>4 DEF CycleSnapshots
  <2>5. CASE CycleFinishes
    BY <2>5 DEF CycleFinishes, CycleEnds, StartupSees, AttemptFails, RunQueued, JobAwaited
  <2>6. CASE CycleSends
    BY <2>6 DEF CycleSends
  <2>7. CASE CycleConfirms
    BY <2>7 DEF CycleConfirms
  <2>8. CASE CycleSendFails
    BY <2>8 DEF CycleSendFails, CycleEnds, StartupSees, AttemptFails, RunQueued, JobAwaited
  <2> QED
    BY <1>4, <2>1, <2>2, <2>3, <2>4, <2>5, <2>6, <2>7, <2>8 DEF Cycle
<1>5. CASE Poke
  <2>1. CASE PokeStarts
    BY <2>1 DEF PokeStarts, Timers, Busy
  <2>2. CASE PokeEnds
    BY <2>2 DEF PokeEnds, RunQueued, JobAwaited
  <2> QED
    BY <1>5, <2>1, <2>2 DEF Poke
<1>6. CASE Relay
  <2>1. CASE RelayStarts
    BY <2>1 DEF RelayStarts, Timers, Busy
  <2>2. CASE RelayFindsNone
    BY <2>2 DEF RelayFindsNone, RelayEnds, RunQueued, JobAwaited
  <2>3. CASE RelaySends
    BY <2>3 DEF RelaySends
  <2>4. CASE RelayExecuted
    BY <2>4 DEF RelayExecuted, RelayEnds, RunQueued, JobAwaited
  <2>5. CASE RelayFails
    BY <2>5 DEF RelayFails, RelayEnds, RunQueued, JobAwaited
  <2> QED
    BY <1>6, <2>1, <2>2, <2>3, <2>4, <2>5 DEF Relay
<1>7. CASE Monitor
  <2>1. CASE MonitorStarts
    BY <2>1 DEF MonitorStarts, Timers, CanObserve
  <2>2. CASE MonitorReadsHead
    BY <2>2 DEF MonitorReadsHead, Observes, ActsOn, GoesUnrecorded, RunAndRecord, Busy
  <2>3. CASE MonitorScans
    BY <2>3 DEF MonitorScans, Observes, ActsOn, GoesUnrecorded, RunAndRecord, Busy
  <2>4. CASE MonitorFails
    BY <2>4 DEF MonitorFails
  <2> QED
    BY <1>7, <2>1, <2>2, <2>3, <2>4 DEF Monitor
<1>8. CASE Stop
  <2>1. CASE Shutdown
    BY <2>1 DEF Shutdown, Busy
  <2>2. CASE ShutdownTimesOut
    BY <2>2 DEF ShutdownTimesOut
  <2> QED
    BY <1>8, <2>1, <2>2 DEF Stop
<1>9. CASE UNCHANGED vars
  BY <1>9 DEF vars
<1> QED
  BY <1>1, <1>2, <1>3, <1>4, <1>5, <1>6, <1>7, <1>8, <1>9 DEF Next

LEMMA CalmStep ==
  ASSUME Calm, SInv, CursorFromSnapshot, Next
  PROVE  Attentive
<1>1. cycle = "reading" => cycle' # "none"
  BY DEF Calm, Next, Start, BotInit, BotInitFails, Startup, RunAndRecord, Busy, FirstObservation,
     TimersStart, NewBlock, Clock, Reconcile, DegradedFallback, Deadline, Cycle, CycleRecovers,
     CycleHeld, CycleFails, CycleSnapshots, CycleFinishes, CycleSends, CycleConfirms,
     CycleSendFails, Poke, PokeStarts, PokeEnds, RunQueued, Relay, RelayStarts, RelayFindsNone,
     RelayEnds, RelaySends, RelayExecuted, RelayFails, Monitor, MonitorStarts, MonitorReadsHead,
     MonitorScans, Observes, ActsOn, GoesUnrecorded, MonitorFails, Stop, Shutdown, ShutdownTimesOut, chainVars, jobVars,
     SInv, JobInv, AloneWithTheJournal
<1>2. cursor = NoBlock /\ cursor' # NoBlock => cycle' # "reading"
  BY DEF CursorFromSnapshot, Next, Start, BotInit, BotInitFails, Startup, FirstObservation,
     TimersStart, NewBlock, Clock, Reconcile, DegradedFallback, Deadline, Cycle, CycleRecovers,
     CycleHeld, CycleEnds, CycleFails, CycleSnapshots, CycleFinishes, CycleSends, CycleConfirms,
     CycleSendFails, Poke, PokeStarts, PokeEnds, Relay, RelayStarts, RelayFindsNone,
     RelaySends, RelayExecuted, RelayFails, Monitor, MonitorStarts, MonitorReadsHead,
     MonitorScans, MonitorFails, Stop, Shutdown, ShutdownTimesOut, monitorVars
<1>3. monitor = "logs" /\ monitor' = "idle" /\ cursor' # cursor => healthy'
  BY DEF Calm, Next, Start, BotInit, BotInitFails, Startup, FirstObservation,
     TimersStart, NewBlock, Clock, Reconcile, DegradedFallback, Deadline, Cycle, CycleRecovers,
     CycleHeld, CycleEnds, CycleFails, CycleSnapshots, CycleFinishes, CycleSends, CycleConfirms,
     CycleSendFails, Poke, PokeStarts, PokeEnds, Relay, RelayStarts, RelayFindsNone,
     RelaySends, RelayExecuted, RelayFails, Monitor, MonitorStarts, MonitorReadsHead,
     MonitorScans, Observes, ActsOn, GoesUnrecorded, MonitorFails, Stop, Shutdown,
     ShutdownTimesOut, monitorVars
<1> QED
  BY <1>1, <1>2, <1>3 DEF Attentive

\* Without a failing cycle or patch and with an empty journal at the start, every
\* step is outside the windows.
THEOREM CalmIsAttentive == ASSUME Calm PROVE Spec => AttentiveSpec
<1>1. Calm
  OBVIOUS
<1>2. Init => CursorFromSnapshot
  BY <1>1 DEF Init, Calm, CursorFromSnapshot
<1>3. SInv /\ CursorFromSnapshot /\ [Next]_vars => [Next /\ Attentive]_vars
  BY <1>1, CalmStep
<1>4. SInv /\ RInv /\ CursorFromSnapshot /\ [Next]_vars => (RInv /\ CursorFromSnapshot)'
  BY <1>1, <1>3, CursorKept, RInvStep
<1> QED
  BY <1>2, <1>3, <1>4, SInvHolds, InitRInv, PTL DEF Spec, AttentiveSpec
=============================================================================
