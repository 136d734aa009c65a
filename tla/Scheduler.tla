------------------------------ MODULE Scheduler ------------------------------
(***************************************************************************)
(* What the process of src/main.ts runs and when: hedge cycles, oracle     *)
(* pokes and Safe relays, one at a time; a trigger that arrives while one  *)
(* of them runs is remembered in queuedTrigger.  The fast monitor awaits   *)
(* the head, the oracle ticks and the account's logs beside them, so its   *)
(* answers arrive in any order relative to the steps of a cycle.           *)
(*                                                                         *)
(* Every await is a step boundary; what runs between two awaits is one     *)
(* action.  HedgeExecution models what a cycle sends: here a send is only  *)
(* the journal's pending intent, the durable swap obligation and a block   *)
(* that changes the account.  A trigger is only asked for or not: its name *)
(* goes to the heartbeat file.                                             *)
(***************************************************************************)
EXTENDS Integers, FiniteSets

CONSTANTS
  MaxBlock,     \* bound: the last block of a behaviour
  MaxAttempts,  \* startup attempts before the process gives up
  Faults        \* what may happen, a subset of FaultNames

FaultNames ==
  {"pendingAtStart",  \* a crash left an intent or an obligation behind
   "initFails",    \* bot.init() throws
   "cycleFails",   \* a cycle throws, or has no price, ahead of its snapshot
   "heartbeat",    \* a patch of the state file throws: it cannot be written,
                   \* or has a new owner
   "monitorRpc",   \* an RPC read of the fast monitor fails
   "poke",         \* SafeMode is on and oracle pokes are enabled
   "relay",        \* the Safe relay is enabled
   "shutdown"}     \* SIGTERM, SIGINT, or the lease is lost

ASSUME SchedulerAssumption ==
  MaxBlock \in Nat /\ MaxAttempts \in Nat \ {0} /\ Faults \subseteq FaultNames

VARIABLES
  head,      \* the chain's latest block
  changes,   \* the blocks that changed the account, with an event
  phase,     \* how far main() has come
  attempts,  \* failed startup attempts
  cycle,     \* activeCycle, and how far it has come
  snapAt,    \* the block the cycle's snapshot is pinned to
  poke,      \* activeOraclePoke is set
  relay,     \* activeRelay, and how far it has come
  queued,    \* queuedTrigger is set
  pending,   \* the journal holds a pending intent
  owed,      \* the pending SFPM swap file exists
  bands,     \* the snapshot block the trigger monitor's bands stand for
  cursor,    \* the account event monitor's last scanned block
  monitor,   \* the fast monitor, and what it awaits
  seen,      \* the block number the fast monitor read
  from,      \* the cursor when getLogs was called
  healthy,   \* monitorHealthy
  timed,     \* the timed hedge: waiting, due, or due and woken for
  stop       \* shuttingDown

chainVars   == <<head, changes>>
startVars   == <<phase, attempts>>
jobVars     == <<cycle, snapAt, poke, relay, queued>>
durable     == <<pending, owed>>
monitorVars == <<bands, cursor, monitor, seen, from, healthy, timed>>
vars == <<chainVars, startVars, jobVars, durable, monitorVars, stop>>

NoBlock == -1
Blocks  == 0..MaxBlock

BlocksOK ==
  /\ head \in Blocks
  /\ changes \subseteq 1..head
  /\ \A block \in {snapAt, bands, cursor, seen, from} : block \in {NoBlock} \cup 0..head

PhasesOK ==
  /\ phase \in {"init", "starting", "trying", "observing", "watching", "up", "failed"}
  /\ cycle \in {"none", "begun", "reading", "acting", "sending"}
  /\ relay \in {"none", "polling", "sending"}
  /\ monitor \in {"idle", "head", "logs", "cycle"}
  /\ timed \in {"waiting", "due", "woken"}
  /\ stop \in {"no", "waiting", "exited"}

FlagsOK ==
  /\ poke \in BOOLEAN
  /\ queued \in BOOLEAN
  /\ pending \in BOOLEAN
  /\ owed \in BOOLEAN
  /\ healthy \in BOOLEAN

TypeOK == BlocksOK /\ PhasesOK /\ FlagsOK /\ attempts \in 0..MaxAttempts

Running == stop # "exited" /\ phase # "failed"
Timers  == Running /\ stop = "no" /\ phase = "up"
Busy    == cycle # "none" \/ poke \/ relay # "none"

\* runFastMonitor's guard.
CanObserve == stop = "no" /\ monitor = "idle" /\ cycle = "none" /\ ~poke

ChangedIn(first, last) == changes \cap first..last # {}

\* Mutant of RunAndRecord: a relay does not hold a cycle back.
RunAndRecordBesideRelay ==
  IF cycle # "none" \/ poke THEN queued' = TRUE /\ UNCHANGED cycle
                            ELSE cycle' = "begun" /\ UNCHANGED queued

\* Mutant of RunAndRecord: a trigger that finds a job running is dropped.
RunAndRecordDropping ==
  IF Busy THEN UNCHANGED <<cycle, queued>>
          ELSE cycle' = "begun" /\ UNCHANGED queued

\* runAndRecord: a cycle, or a note that one is wanted.
RunAndRecord ==
  IF Busy THEN queued' = TRUE /\ UNCHANGED cycle
          ELSE cycle' = "begun" /\ UNCHANGED queued

\* clear() of the three jobs: what was queued runs now.
RunQueued(wanted) ==
  /\ cycle' = IF wanted THEN "begun" ELSE "none"
  /\ queued' = FALSE

\* Mutant of JobAwaited: shutdown() awaits whatever runs next, too.
JobAwaitedAll == stop' = IF stop = "waiting" /\ ~queued THEN "exited" ELSE stop

\* shutdown() awaits the job it found; when that ends, the process does.
JobAwaited == stop' = IF stop = "waiting" THEN "exited" ELSE stop
-----------------------------------------------------------------------------
(***************************************************************************)
(* The chain, and the clock.                                               *)
(***************************************************************************)
NewBlock ==
  /\ head < MaxBlock
  /\ head' = head + 1
  /\ changes' \in {changes, changes \cup {head + 1}}
  /\ UNCHANGED <<startVars, jobVars, durable, monitorVars, stop>>

\* TIMED_HEDGE_INTERVAL_MS has passed since the last delta hedge.
Deadline ==
  /\ timed = "waiting"
  /\ timed' = "due"
  /\ UNCHANGED <<chainVars, startVars, jobVars, durable, bands, cursor, monitor, seen,
                 from, healthy, stop>>
-----------------------------------------------------------------------------
(***************************************************************************)
(* main(): init, the startup cycle, the first observation, the timers.     *)
(***************************************************************************)

\* Mutant of AttemptFails: one retry too many.
AttemptFailsLate ==
  /\ attempts' = attempts + 1
  /\ phase' = IF attempts = MaxAttempts THEN "failed"
              ELSE IF phase = "init" THEN "init" ELSE "starting"

\* initWithRetry: the last failure ends the process.
AttemptFails ==
  /\ attempts' = attempts + 1
  /\ phase' = IF attempts' = MaxAttempts THEN "failed"
              ELSE IF phase = "init" THEN "init" ELSE "starting"

\* bot.init() settles or holds the pending intent.
BotInit ==
  /\ Running /\ phase = "init"
  /\ pending' \in {FALSE, pending} /\ owed' \in {FALSE, owed}
  /\ phase' = "starting"
  /\ attempts' = 0
  /\ UNCHANGED <<chainVars, jobVars, monitorVars, stop>>

BotInitFails ==
  /\ "initFails" \in Faults
  /\ Running /\ phase = "init"
  /\ AttemptFails
  /\ UNCHANGED <<chainVars, jobVars, durable, monitorVars, stop>>

\* The startup cycle starts, unless a post-action cycle of a failed attempt
\* runs: that attempt is "in-flight", and has failed.
Startup ==
  /\ Running /\ phase = "starting"
  /\ RunAndRecord
  /\ IF Busy THEN AttemptFails ELSE phase' = "trying" /\ UNCHANGED attempts
  /\ UNCHANGED <<chainVars, snapAt, poke, relay, durable, monitorVars, stop>>

\* main() awaits the first observation before it starts the timers.
FirstObservation ==
  /\ Running /\ phase = "observing"
  /\ IF CanObserve THEN monitor' = "head" /\ phase' = "watching"
                   ELSE phase' = "up" /\ UNCHANGED monitor
  /\ UNCHANGED <<chainVars, attempts, jobVars, durable, bands, cursor, seen, from,
                 healthy, timed, stop>>

TimersStart ==
  /\ Running /\ phase = "watching"
  /\ monitor = "idle"
  /\ phase' = "up"
  /\ UNCHANGED <<chainVars, attempts, jobVars, durable, monitorVars, stop>>

Reconcile ==
  /\ Timers
  /\ RunAndRecord
  /\ UNCHANGED <<chainVars, startVars, snapAt, poke, relay, durable, monitorVars, stop>>

DegradedFallback ==
  /\ Timers /\ ~healthy
  /\ RunAndRecord
  /\ UNCHANGED <<chainVars, startVars, snapAt, poke, relay, durable, monitorVars, stop>>
-----------------------------------------------------------------------------
(***************************************************************************)
(* A cycle: HedgerBot.runCycle, and the callbacks main() gave it.          *)
(***************************************************************************)

\* initWithRetry sees how the startup cycle ended; a deadline that is due then
\* counts as woken for.
StartupSees(good) ==
  IF phase # "trying" THEN UNCHANGED <<startVars, timed>>
  ELSE IF good THEN /\ phase' = "observing"
                    /\ timed' = IF timed = "due" THEN "woken" ELSE timed
                    /\ UNCHANGED attempts
  ELSE AttemptFails /\ UNCHANGED timed

\* The cycle's promise settles: recordCycle, whoever awaited it, then clear(),
\* which runs what was queued or else pokes the oracle if SafeMode asks for it.
CycleEnds(good) ==
  /\ \E thrown \in BOOLEAN :
       /\ thrown => "heartbeat" \in Faults
       /\ StartupSees(good /\ ~thrown)
       /\ healthy' = (healthy /\ ~(thrown /\ monitor = "cycle"))
  /\ RunQueued(queued)
  /\ poke' \in {poke, ~queued /\ "poke" \in Faults /\ stop = "no"}
  /\ snapAt' = NoBlock
  /\ monitor' = IF monitor = "cycle" THEN "idle" ELSE monitor
  /\ JobAwaited
  /\ UNCHANGED <<chainVars, relay, bands, cursor, seen, from>>

\* resolvePendingHedgeIntent: nothing is pending, or recover() settles it and
\* may drop the obligation.  The snapshot is pinned to the head of its reads.
CycleRecovers ==
  /\ Running /\ cycle = "begun"
  /\ pending' = FALSE
  /\ owed' \in IF pending THEN {FALSE, owed} ELSE {owed}
  /\ cycle' = "reading"
  /\ snapAt' = head
  /\ UNCHANGED <<chainVars, startVars, poke, relay, queued, monitorVars, stop>>

CycleHeld ==
  /\ Running /\ cycle = "begun" /\ pending
  /\ CycleEnds(TRUE)
  /\ UNCHANGED durable

CycleFails ==
  /\ "cycleFails" \in Faults
  /\ Running
  /\ \/ cycle = "begun" /\ pending
     \/ cycle = "reading"
  /\ CycleEnds(FALSE)
  /\ UNCHANGED durable

\* recordSnapshot: the cursor moves forward to the snapshot, and the bands are
\* rebuilt from it.
CycleSnapshots ==
  /\ Running /\ cycle = "reading"
  /\ cycle' = "acting"
  /\ cursor' = IF snapAt > cursor THEN snapAt ELSE cursor
  /\ bands' = snapAt
  /\ UNCHANGED <<chainVars, startVars, snapAt, poke, relay, queued, durable, monitor, seen,
                 from, healthy, timed, stop>>

\* Nothing (more) to do; a skip; a deferral; or an error of planning.
CycleFinishes ==
  /\ Running /\ cycle = "acting"
  /\ \E good \in BOOLEAN : CycleEnds(good)
  /\ UNCHANGED durable

\* A send opens an intent; an off-venue one also owes a swap.
CycleSends ==
  /\ Running /\ cycle = "acting" /\ ~pending
  /\ cycle' = "sending"
  /\ pending' = TRUE
  /\ owed' \in {owed, TRUE}
  /\ UNCHANGED <<chainVars, startVars, snapAt, poke, relay, queued, monitorVars, stop>>

\* The receipt of a transaction mined after the snapshot.  recordHedge and
\* recordDeleverage void the bands and ask for another cycle; a redeposit and a
\* recovered swap do not call them.  A delta hedge moves the deadline.
CycleConfirms ==
  /\ Running /\ cycle = "sending"
  /\ ChangedIn(snapAt + 1, head)
  /\ cycle' = "acting"
  /\ pending' = FALSE
  /\ owed' \in {FALSE, owed}
  /\ \/ bands' = NoBlock /\ queued' = TRUE
     \/ UNCHANGED <<bands, queued>>
  /\ timed' \in {timed, "waiting"}
  /\ UNCHANGED <<chainVars, startVars, snapAt, poke, relay, cursor, monitor, seen, from,
                 healthy, stop>>

\* A send that failed, or that may still land, ends the cycle; a redeposit that
\* does is swallowed, and the cycle goes on.
CycleSendFails ==
  /\ Running /\ cycle = "sending"
  /\ pending' \in BOOLEAN
  /\ owed' \in {FALSE, owed}
  /\ \/ CycleEnds(FALSE)
     \/ /\ cycle' = "acting"
        /\ UNCHANGED <<chainVars, startVars, snapAt, poke, relay, queued, monitorVars, stop>>
-----------------------------------------------------------------------------
(***************************************************************************)
(* Oracle pokes and the Safe relay.                                        *)
(***************************************************************************)
PokeStarts ==
  /\ "poke" \in Faults
  /\ Timers /\ ~Busy
  /\ poke' = TRUE
  /\ UNCHANGED <<chainVars, startVars, cycle, snapAt, relay, queued, durable, monitorVars, stop>>

PokeEnds ==
  /\ Running /\ poke
  /\ poke' = FALSE
  /\ RunQueued(queued)
  /\ JobAwaited
  /\ UNCHANGED <<chainVars, startVars, snapAt, relay, durable, monitorVars>>

\* runSafeRelay.
RelayStarts ==
  /\ "relay" \in Faults
  /\ Timers /\ ~Busy
  /\ ~pending /\ ~owed
  /\ relay' = "polling"
  /\ UNCHANGED <<chainVars, startVars, cycle, snapAt, poke, queued, durable, monitorVars, stop>>

\* Mutant of RelayEnds: a relay leaves the queue to the next timer.
RelayEndsQuietly(wanted) ==
  /\ relay' = "none"
  /\ queued' = wanted
  /\ UNCHANGED cycle
  /\ JobAwaited

RelayEnds(wanted) ==
  /\ relay' = "none"
  /\ RunQueued(wanted)
  /\ JobAwaited

\* No transaction, an unsafe one, a gas deferral, a failed simulation, an error.
RelayFindsNone ==
  /\ Running /\ relay = "polling"
  /\ RelayEnds(queued)
  /\ UNCHANGED <<chainVars, startVars, snapAt, poke, durable, monitorVars>>

RelaySends ==
  /\ Running /\ relay = "polling" /\ ~pending
  /\ relay' = "sending"
  /\ pending' = TRUE
  /\ UNCHANGED <<chainVars, startVars, cycle, snapAt, poke, queued, owed, monitorVars, stop>>

\* The owners' transaction may have changed what is hedged: the bands are void,
\* and a cycle is asked for before clear() looks.
RelayExecuted ==
  /\ Running /\ relay = "sending"
  /\ pending' = FALSE
  /\ bands' = NoBlock
  /\ RelayEnds(TRUE)
  /\ UNCHANGED <<chainVars, startVars, snapAt, poke, owed, cursor, monitor, seen, from,
                 healthy, timed>>

RelayFails ==
  /\ Running /\ relay = "sending"
  /\ pending' \in BOOLEAN
  /\ RelayEnds(queued)
  /\ UNCHANGED <<chainVars, startVars, snapAt, poke, owed, monitorVars>>
-----------------------------------------------------------------------------
(***************************************************************************)
(* The fast monitor.  Its guards are read once, at its start.              *)
(***************************************************************************)
MonitorStarts ==
  /\ Timers
  /\ CanObserve
  /\ monitor' = "head"
  /\ UNCHANGED <<chainVars, startVars, jobVars, durable, bands, cursor, seen, from, healthy,
                 timed, stop>>

\* The observation is recorded, a change in it voids the bands, and a cycle may
\* start: no await is left but that cycle's.
ActsOn(changed) ==
  /\ healthy' = TRUE
  /\ bands' = IF changed THEN NoBlock ELSE bands
  /\ \/ \* a pending intent, an account event, a crossed band, a retry, a deadline
        /\ \/ (pending \/ changed) /\ UNCHANGED timed
           \/ ~pending /\ ~changed /\ bands # NoBlock /\ UNCHANGED timed
           \/ ~pending /\ ~changed /\ timed = "due" /\ timed' = "woken"
        /\ RunAndRecord
        /\ monitor' = IF Busy THEN "idle" ELSE "cycle"
     \/ \* nothing to wake for
        /\ ~pending /\ ~changed /\ timed # "due"
        /\ monitor' = "idle"
        /\ UNCHANGED <<cycle, queued, timed>>

\* The patch that records the observation throws: what scan() has consumed voids
\* no bands and starts no cycle.
GoesUnrecorded ==
  /\ "heartbeat" \in Faults
  /\ healthy' = FALSE
  /\ monitor' = "idle"
  /\ UNCHANGED <<bands, cycle, queued, timed>>

\* The rest of runFastMonitor once scan() has answered.
Observes(changed) ==
  /\ seen' = NoBlock /\ from' = NoBlock
  /\ ActsOn(changed) \/ GoesUnrecorded

\* getBlockNumber and getOracleTicks answer, at most a block late; scan()
\* starts, and answers at once when it has no cursor yet or nothing to scan.
MonitorReadsHead ==
  /\ Running /\ monitor = "head"
  /\ \E block \in {b \in Blocks : b <= head /\ b + 1 >= head} :
       IF cursor = NoBlock
       THEN cursor' = block /\ Observes(FALSE)
       ELSE IF block <= cursor
       THEN UNCHANGED cursor /\ Observes(FALSE)
       ELSE /\ seen' = block
            /\ from' = cursor
            /\ monitor' = "logs"
            /\ UNCHANGED <<cycle, queued, bands, cursor, healthy, timed>>
  /\ UNCHANGED <<chainVars, startVars, snapAt, poke, relay, durable, stop>>

\* getLogs answers: the cursor is the block scanned to, wherever a snapshot has
\* moved it in the meantime.
MonitorScans ==
  /\ Running /\ monitor = "logs"
  /\ cursor' = seen
  /\ Observes(ChangedIn(from + 1, seen))
  /\ UNCHANGED <<chainVars, startVars, snapAt, poke, relay, durable, stop>>

MonitorFails ==
  /\ "monitorRpc" \in Faults
  /\ Running /\ monitor \in {"head", "logs"}
  /\ monitor' = "idle"
  /\ seen' = NoBlock /\ from' = NoBlock
  /\ healthy' = FALSE
  /\ UNCHANGED <<chainVars, startVars, jobVars, durable, bands, cursor, timed, stop>>
-----------------------------------------------------------------------------
(***************************************************************************)
(* Shutdown: it waits for the job it finds, fifteen seconds at most.       *)
(***************************************************************************)
Shutdown ==
  /\ "shutdown" \in Faults
  /\ Running /\ stop = "no"
  /\ stop' = IF Busy THEN "waiting" ELSE "exited"
  /\ UNCHANGED <<chainVars, startVars, jobVars, durable, monitorVars>>

ShutdownTimesOut ==
  /\ Running /\ stop = "waiting"
  /\ stop' = "exited"
  /\ UNCHANGED <<chainVars, startVars, jobVars, durable, monitorVars>>
-----------------------------------------------------------------------------
Init ==
  /\ head = 0 /\ changes = {}
  /\ phase = "init" /\ attempts = 0
  /\ cycle = "none" /\ snapAt = NoBlock /\ poke = FALSE /\ relay = "none" /\ queued = FALSE
  /\ pending \in BOOLEAN /\ owed \in BOOLEAN
  /\ pending \/ owed => "pendingAtStart" \in Faults
  /\ bands = NoBlock /\ cursor = NoBlock
  /\ monitor = "idle" /\ seen = NoBlock /\ from = NoBlock
  /\ healthy = FALSE
  /\ timed \in {"waiting", "due"}
  /\ stop = "no"

Start   == BotInit \/ BotInitFails \/ Startup \/ FirstObservation \/ TimersStart
Clock   == Reconcile \/ DegradedFallback \/ Deadline
Cycle   == \/ CycleRecovers \/ CycleHeld \/ CycleFails \/ CycleSnapshots \/ CycleFinishes
           \/ CycleSends \/ CycleConfirms \/ CycleSendFails
Poke    == PokeStarts \/ PokeEnds
Relay   == RelayStarts \/ RelayFindsNone \/ RelaySends \/ RelayExecuted \/ RelayFails
Monitor == MonitorStarts \/ MonitorReadsHead \/ MonitorScans \/ MonitorFails
Stop    == Shutdown \/ ShutdownTimesOut

Next == NewBlock \/ Start \/ Clock \/ Cycle \/ Poke \/ Relay \/ Monitor \/ Stop

Spec == Init /\ [][Next]_vars

\* Steps outside the three windows in which the bot may fall asleep on stale bands:
\* once it is up, a cycle that ends ahead of its snapshot with nothing queued
\* leaves bands that stand for every change consumed so far; the monitor's first
\* scan does not set the cursor while a snapshot is being read; and a scan whose
\* observation goes unrecorded had found no change.
Attentive ==
  /\ /\ cycle = "reading" /\ cycle' = "none"
     /\ phase \in {"observing", "watching", "up"}
     => bands # NoBlock /\ ~ChangedIn(bands + 1, cursor)
  /\ cursor = NoBlock /\ cursor' # NoBlock => cycle' # "reading"
  /\ monitor = "logs" /\ monitor' = "idle" /\ cursor' # cursor /\ ~healthy'
     => ~ChangedIn(from + 1, seen)

AttentiveSpec == Init /\ [][Next /\ Attentive]_vars

\* What the process's own timers and promises justify: every job step is taken
\* in the end, the reconcile timer fires, a cycle that keeps sending finishes
\* (it has at most a redeposit, two burn stages, a hedge and its swap, and a
\* rehedge to send), and of infinitely many cycles that read a snapshot or
\* settle an intent, one succeeds.
Fairness ==
  /\ WF_vars(Start) /\ WF_vars(Reconcile)
  /\ WF_vars(Cycle) /\ WF_vars(PokeEnds) /\ WF_vars(RelayFindsNone \/ RelayExecuted \/ RelayFails)
  /\ WF_vars(MonitorReadsHead \/ MonitorScans \/ MonitorFails)
  /\ SF_vars(BotInit) /\ SF_vars(CycleRecovers) /\ SF_vars(CycleSnapshots)
  /\ SF_vars(CycleFinishes)

FairSpec == Spec /\ Fairness
-----------------------------------------------------------------------------
(***************************************************************************)
(* Properties.                                                             *)
(***************************************************************************)

\* Jobs never overlap, and a job about to send is alone with the journal: no
\* other job has left or opens a pending intent after recovery or runSafeRelay
\* looked, and no relay runs while a swap is owed (the guards of runAndRecord,
\* runOraclePoke and runSafeRelay are read before their awaits).
AloneWithTheJournal ==
  /\ cycle = "none" \/ ~poke
  /\ cycle = "none" \/ relay = "none"
  /\ ~poke \/ relay = "none"
  /\ cycle = "reading" \/ relay = "polling" => ~pending
  /\ relay # "none" => ~owed

\* A queued trigger always has a running job whose clear() will run it: it is
\* never left behind in queuedTrigger with nothing to drain it.
NoTriggerStranded == queued /\ Running => Busy

Quiet == phase = "up" /\ stop = "no" /\ ~Busy /\ ~pending /\ monitor = "idle"

\* Outside the three windows of Attentive the bot sleeps, with nothing running,
\* pending or in doubt, on bands that stand for a snapshot no older than the account
\* changes it has consumed: a scan, a snapshot and an action may finish in any
\* order, cycles may fail, and no event is lost between them.
SleepsOnFreshBands ==
  Quiet => bands # NoBlock /\ ~ChangedIn(bands + 1, cursor)

\* Every account change the event monitor has consumed is followed by a snapshot
\* that includes it, whatever cycles fail, unless the process stops first.
ChangeReachesSnapshot ==
  \A b \in 1..MaxBlock :
    b \in changes /\ cursor >= b /\ phase = "up" ~> bands >= b \/ stop # "no"

\* Once a shutdown waits for a job, no other job starts before the process ends:
\* what was queued is not run on, and a startup retry, a post-cycle poke and an
\* observation that was under way start nothing.
NothingStartsWhileStopping ==
  [][stop = "waiting" /\ stop' = "waiting" =>
       /\ (cycle = "none" => cycle' = "none")
       /\ (cycle' = "begun" => cycle = "begun")
       /\ (poke' => poke)
       /\ (relay' # "none" => relay # "none")]_vars
=============================================================================
