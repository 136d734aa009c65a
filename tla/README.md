# Verification of the Panoptic hedger bot

TLA+ models of the bot in `src/`, model-checked with TLC on small instances, and
theorems about them checked by TLAPS for every value of the constants.  Paths
below are relative to the repository (`src/src/...` is its `src/` directory).

- [The system](#the-system): components, what each keeps, how they interact.
- [Modules](#modules): which module models what, and how faithfully.
- [Runs](#runs): what TLC checks, with which bounds, and what it shows.
- [Disagreements found](#disagreements-found) between the code and what it says.
- [Proofs](#proofs): what holds for every value of the constants, and why.
- [Limits](#limits): what is only model-checked, and what is not modelled.
- [Plan](#plan): what comes next.

To run: `tlc -config orderly.cfg HedgeExecution.tla` (any row of the table of
runs), `tlapm HedgeExecution_proofs.tla` (any module that ends in `_proofs`).

## The system

One Node process watches one Safe on one Panoptic pool.  When the delta of the
Safe's options drifts, it sends transactions from a keeper key through a Roles
modifier.  A hedge is one transaction (a dispatch of loans), or two: a dispatch
without its in-pool swap and then the same swap on an off-venue pool, between
which the book is unbalanced.  The process may die at any point and is restarted;
a second process may be started on the same Safe; nodes lose, refuse and forget
transactions.  Before all that, operator scripts make the key, deploy the Safe's
modifier, have its owner grant the bot what it needs, and activate the bot; they
share files and the chain with the process they prepare.

```
 timers, blocks, ticks, account events            another instance
        |                                               |
   main.ts scheduler --- fast monitor          instance lease (lock file)
        | cycle / poke / relay, one at a time           |
   HedgerBot.runCycle ---------------------- assertSendAllowed
        | recover, plan, execute        |               |
        |         |                     |               |
        |   price signal (exchange feeds, pool)         |
        |                                               |
   hedge journal (file)  pending swap obligation (file) |
        |                                               |
   KeeperSender.send: pin nonce, mark, broadcast, record, wait, bump
        |                    kill switch, activation (files)
   RPC nodes: mempools, chain          |
                                       |
   setup, repair, tune, activate, deactivate: operator scripts
```

| Component | State | Operations | Hard part | What makes it correct |
|---|---|---|---|---|
| Hedge journal, `runtime/hedgeJournal.ts` | array of intents (file), `activeIntentId`, `absentAtBlock` (memory) | begin, observe, attempt marker, rejection, confirm, fail, recover in three RPC rounds | crashes between broadcast and record; the chain moves between rounds; eviction looks like propagation delay | one pending intent; no transaction outlives its intent; every intent settles |
| Sender, `safe/keeperSender.ts`, `safe/rolesExecutor.ts` | nonce, recorded hashes, last bump block | send with fee escalation | answers that do not say what happened; replacements; receipts of any attempt | an error is definitive only if nothing can land |
| Cycle, `hedgerBot.ts`, `hedge/executeWithVenue.ts` | none of its own between cycles | recover, reconcile, resume a swap, plan, send, book-keeping | two transactions that must both land, or neither | every landed dispatch is swapped exactly once; no plan on an unbalanced book |
| Swap obligation, `runtime/pendingSfpmSwap.ts` | one record (file) | save, link, clear | order of its writes around the journal's | durable from before the dispatch to after the swap |
| Safe relay, `safe/signedTxRelay.ts` | none | select, simulate, send | shares key and journal with the cycle; fails differently | keeps its intent until the transaction cannot land |
| Scheduler, `main.ts` | the three active jobs, `queuedTrigger`, health, shutdown flags | cycles, pokes, relays, fast monitor, timers, startup retries, shutdown | callbacks interleave at every await | jobs exclude one another; no trigger lost; no send behind a shutdown |
| Account events, `runtime/accountEventMonitor.ts` | cursor | reset, scan | scan and snapshot finish in any order | no account change is skipped |
| Trigger monitor, `runtime/hedgeTriggerMonitor.ts` | bands, crossing latches | refresh, invalidate, observe | latched retries, hysteresis | a crossing is acted on once, and retried |
| Timed cadence, `hedge/timedCadence.ts` | last hedge time, last wake | due | a wake that finds a job running | a deadline wakes once |
| Instance lease, `runtime/instanceLease.ts` | lock directory, owner file | acquire, take over, renew, assert, release | file operations of two processes interleave; expiry | one instance sends at a time |
| Planning, `hedge/decision.ts`, `frame.ts`, `marginReserve.ts`, and their use in `hedgerBot.ts` | none (pure); the book is the chain's | exposure, drift, the five cases, capacity, sizes, reserve | truncating signed division; market, SafeMode, user and own dust move between plan and send | a plan approaches the target, a market at rest settles, the reserve survives |
| Netted shrink, `hedge/nettedShrink.ts` | none | route and size a shrink | a temporary loan grown until it simulates | ends where the plain shrink does |
| Venue choice, `hedge/sfpmVenue*.ts`, `executor/sfpm*.ts` | quote and position list from before the dispatch | in-pool or off-venue, wallet first | two transactions, one preview | the swap is made at most at its floor, else it stays owed |
| Deleverager, `hedge/deleverage.ts`, `hedgerBot.ts` | incident, cooldowns (memory) | observe, select, burn options, rehedge, reassess, burn loans | the user, the market and late burns move the account under the loop | it ends, it answers a lasting risk, it burns no more than it must |
| Gas policy, `gas/gasPolicy.ts` | none | price, bump, assess | two coupled fee fields, rounding, caps | each bump is acceptable to the node or none is sent |
| Executors, `executor/*.ts` | none | build calldata, simulate, call the sender | | |
| Snapshot readers, `hedge/snapshot.ts`, ... | none | read positions at a pinned block | | all reads from one block |
| Price signals, `priceSignal/*.ts` | sockets, last quotes, last sample | connect, recycle, sample, aggregate, read | silent feeds, reconnect races, a lying exchange | no price from stale or too few feeds; the signal comes back |
| Activation, `runtime/activation.ts`, `deactivation.ts`, `security/*` | marker, kill switch, `.env`; the process's parsed copy | activate, deactivate, check at start and before each send | files written one after the other by three processes | only a confirmed policy trades; after the kill switch nothing does |
| Setup scripts, `scripts/setup.ts`, `scripts/lib/deployCore.ts`, `existingSafe.ts`, ... | keystore, state file, `.env`, exported batches, transactions in flight | onboard, resume, repair, clean up, tune | crashes between any two writes, transactions that land late, an owner who acts later | no funded key is lost; the bot's permissions are the reviewed ones |
| Permission audit, `scripts/lib/authorizationManifest.ts`, `verifyScope.ts`, `diagnostics/*` | none | rebuild the manifest, compare, probe | batches that revert as a whole, a linked list of modules | what is not reviewed is seen |
| Heartbeat, `runtime/stateFile.ts` | one file | patch | two processes around a restart | the newer one's survives |
| Configuration, keys, logs, notifications, inspection scripts | | | | |

The hazards that follow, each at its line, are listed in `PROJECT.json` with the
properties that would catch them going wrong.

## Modules

| Module | Models |
|---|---|
| `HedgeJournal` | `hedgeJournal.ts`: the entries, every operation, the three rounds of `recover()` |
| `HedgeExecution` (extends it) | the cycle, the off-venue pair, the obligation, the relay, the sender, with the chain and the mempools as environment |
| `HedgeProtocol` | the abstract specification that `HedgeExecution` implements |
| `Scheduler` | `main.ts` with the account events, the bands and the timed deadline |
| `InstanceLease` | `instanceLease.ts` for a set of instances |
| `Deleverage` | `deleverage.ts` and `HedgerBot.runDeleverage` over an account that moves |
| `LoanBook` | hedge loans, their sizes in the vault's asset, unique tokenIds, truncating division, and what a dispatch or an off-venue batch does to the account |
| `HedgePlan` (extends it) | exposure, drift, plan, routes, reserve, pre-flight, send and owed swap, with the market between any two |
| `HedgeTriggers` | the drift at another tick, the search for boundaries, `observe()` and its latches |
| `GasPolicy` | the deferral gate, first fees, replacements |
| `HedgeWatch` (extends both) | from a price move to a landed hedge: monitor, cycle, fees, transaction |
| `CexFeeds` | `cexAggregator.ts` and the freshness check of `cexSource.ts` |
| `RolesGrants` | Safe, modules, permissions, owner batches, and the audit |
| `RuntimeGate` (extends it) | `.env`, marker, kill switch, the bot's start and its check before a send, guided activation, deactivation |
| `Onboarding` (extends it) | setup of a new or an existing Safe, resume, repair, cleanup, with transactions in flight |
| `*_proofs` | theorems about the module of that name; `HedgeExecution_proofs` has `HedgeJournal`'s in its part 1 and the refinement of `HedgeProtocol` in its part 3, `HedgeWatch_proofs` has those of `HedgeTriggers` and `GasPolicy` |

### HedgeJournal and HedgeExecution

`intents` is the file.  Entries are only pushed at the end, so a set with
increasing ids is the array.  `active` and `absent` are the two fields that die
with the process.  Heights enter the code only as differences from
`submittedAtBlock` and `absentAtBlock`; the model keeps the differences (`age`,
saturated at the recovery window; `absent`: this block or an earlier one).

`recover()` awaits three times: receipts, nonce, mempools.  Each is an action
(`RecoverReceipts`, `RecoverNonce`, `RecoverMempool`), given what the nodes
answered.  `stalled` is computed from the head read at the start, as in the code.

`HedgeExecution` is one thread with a program counter `pc`; every `await` and
every file write is a step boundary, where the chain may move (`NewBlock`,
`Mine`, `SpendElsewhere`, `Evict`) or the process die (`Crash`).  What the cycle
wants to do is a choice: `BeginHedge` opens an intent for a single-transaction
hedge or for the dispatch of a pair, `EndCycle` stands for every reason to do
nothing (all of planning is one choice here; `HedgePlan` is its model).  A send is `PinNonce` (the immutable identity becomes durable),
`RecordAttempt` (the marker ahead of the broadcast), one of the five
`Broadcast...` outcomes, `RecordHash`, then the receipt loop: `ReceiptFound`,
`Bump`, `NotMined`.  `ConfirmSend`, `FailSend`, `RelayReverted`,
`ClearObligation`, `UndoObligation` are the callers' book-keeping and catch blocks.
The relay deletes its intent when the receipt says that it reverted, and otherwise
keeps it once a broadcast was attempted.  Wherever the code removes the obligation
file (after a confirmed send, after a failed dispatch, when it reconciles) the
removal may throw: `ClearThen` says where the process then is.

`Faults` selects what the environment may do, so each run says what it assumes.
The pool is one set: nodes differ only in what they answer, so a node may report
any pending count compatible with the pool (`PendingCounts`), and a transaction
may be invisible to the observers during the block it was broadcast in (`fresh`).

### HedgeProtocol

What the rest promises: transactions of one intent only are able to land at a
time, an intent lands at most once, and off-venue dispatches and swaps
alternate.  The refinement mapping is `live` = the intents in the pool, `done` =
the intents with a receipt, `owed` = landed dispatches less landed swaps.

### Scheduler

The three promises `activeCycle`, `activeOraclePoke`, `activeRelay` are `cycle`,
`poke`, `relay`; code between two awaits is one action.  A cycle is `begun`
(recovering), `reading` (its snapshot is pinned to `snapAt`), `acting`,
`sending`.  `CycleEnds` is everything that happens when its promise settles:
`recordCycle`, the continuation of whoever awaited it (startup, the fast
monitor), and `clear()`, which runs the queue or starts a poke.  The fast monitor
is `head`, `logs`, `cycle`: what it awaits.  A trigger's name only reaches the
heartbeat file, so `queuedTrigger` is a flag.

A snapshot is the block it is pinned to, and an account change is a block with an
event.  `bands` is the snapshot the trigger bands were built from, so stale bands
are `bands < b` for a change `b`.

### InstanceLease

Every file-system call is a step: `mkdir`, read, `rename`, `mkdir`, write; read,
unlink, rmdir.  These sections are synchronous, so nothing in the same process
interleaves; another process may, under the fault `interleave`.  An instance is
one incarnation: a restart is another instance.  `sending` is the stretch from
`assertOwned` to the broadcast, which has awaits in it.

### Deleverage

`pc` is where `runDeleverage` stands: `select` is the head of its loop, `fallback`
the point where it turns to the loans.  The account (`options`, `loans`, `health`)
is the chain's; the cycle sees it only through `read`, the last snapshot.  The
margin buffer is one of three levels, cut at the trigger and at the target, and
moves freely.  The code's cooldowns compare `nowMs`, taken once per cycle, with the
time of the mark; the model counts the ticks that are left, so a mark sets
`Cooldown - since`.  A simulation is any function from sets of options to a buffer
or a failure, and the selection is the code's: two stable sorts, then the first
prefix that reaches the target.  A failed stage is `CycleFails`; one whose
transaction may still land is `BurnNotMined`, after which no cycle runs until the
journal settles it (which `HedgeExecution` shows in detail).  `Restart` loses the
incident.

### LoanBook and HedgePlan

A loan is its side, strike, option ratio and contracts; notional, principal and
size at a tick are computed from them with the code's divisions, which truncate
toward zero.  A tick stands for the price `Unit + tick`: linear where the code's
is exponential, with the same roundings; `PlanAssumption` keeps it positive down to
the lowest strike (`TicksBelow + Spacing <= Unit`), as the code's price always is.  `Action` is the tree of `decision.ts`
with the capacity overlay in front; `Burns`, `MintSize` and `Mints` are the
sizes, and `Mintable` is the throw of `buildUniqueLoan` when every option ratio of
a strike is in use: the cycle ends before it has a plan.  `Routes` are the ways to carry an intent out: in-pool dispatch, netted
shrink, balance-first swap in either pool, SafeMode credit swap; `Preflight`
re-assesses the reserve at the send's block and may fall back or go off-venue.
`plan` holds what the code holds across its awaits (the position list, the tick
of the quote, the execution limits), so that the market, the user, the signal and
SafeMode may move in between.  What the protocol does with a dispatch (`Settle`,
`Accepted`) is outside the repository and modelled from how the code accounts for
it.  `owed` is the obligation of `HedgeExecution` with its amount.

### HedgeTriggers, GasPolicy and HedgeWatch

Sqrt prices are ticks.  Three shapes of book stand for what the drift function
can look like: growing on both sides, saturating on one, and returning toward
zero, the one for which the code evaluates locally instead of by boundaries.
`Search` is the code's doubling (`Candidate`, `Double`) and bisection (`Middle`,
`Bisect`).  `HedgeWatch` has one `pc` from
idle to held, the monitor's cached snapshot `mon`, the latched retry
(`sinceWake`), and the transaction with its fees; journal, queue and cursor are
those of `HedgeExecution` and `Scheduler`, here reduced to "held" and `changed`.

### CexFeeds

Time is in units of the staleness limit over `Stale`, and saturates once a quote
is older than anything the code distinguishes.  `Sample` is the sampler's whole
callback: drop what is stale, recycle what is silent, reject outliers, aggregate
or withdraw.  `Nth` is a position of the sorted quotes, which the median is built
from; twice the median is kept, so that the mean of two needs no rounding.  `Signal` is what a cycle reads at any later time.

### RolesGrants, RuntimeGate and Onboarding

Permissions are four entries: membership, clearance of the pool, conditions on
dispatch, anything else; the audit compares them with the reviewed ones, and the
two probes look at the layer a call reverts on.  An owner's batch is a sequence
of calls that applies whole or not at all: `Linked` is what it does to the linked
list of modules, `Granted` what the modifier's events add up to.

Three processes share the files: the bot (`bot`, with the configuration it parsed
when it started), the operator's terminal (`op`, one session at a time; `mem` is
what the session knows, `state` what a resume finds of it), and an emergency
deactivation from a second terminal (`deact`).  Each write of a file, each
transaction and each answer is a step; `SessionEnds`, `ActivationEnds`,
`DeactivationCrashes` and `BotStops` may come before any of them.  Transactions
are mined in the order of their nonces, or dropped, also when nobody waits for
them any more.  A policy is the modifier and one bit for all the other settings
the marker's fingerprint binds.  `approved`, `quiet`, `funded` and `discarded`
are history that the properties refer to.

## Runs

| Run | Module | Properties | Bounds |
|---|---|---|---|
| `orderly` | HedgeExecution, `OrderlySpec` | `Fence` `ObligationKept` `SwapOnce` `SwapHasCause` `PlansWhenBalanced` | 3 intents, 2 attempts, window 1, 1 foreign transaction, 1 crash, blocks inside `recover()`; every fault but sends that are not answered |
| `faults` | HedgeExecution | `TypeOK` `RelayFence` `LandsOnce` | 2 intents, 2 attempts, window 1, 1 foreign transaction, 1 crash; every fault |
| `progress` | HedgeExecution, `FairSpec` | `ImplementsProtocol` `PendingIsSettled` `BookIsBalanced` | 4 intents, 1 attempt, window 1; abort, revert, evict, reject |
| `lease` | InstanceLease, `TimelySpec` | `OneSender` `LockIsReadable` `UnexpiredIsKept` | 3 instances, lease 2, clock 4; every fault but a crash between two file operations |
| `sched_jobs` | Scheduler | `TypeOK` `AloneWithTheJournal` `NoTriggerStranded` `NothingStartsWhileStopping` `ChangeReachesSnapshot` | 2 blocks, 2 startup attempts; every fault |
| `sched_sleep` | Scheduler, `AttentiveSpec` | `SleepsOnFreshBands` | 3 blocks, 2 startup attempts; every fault |
| `deleverage` | Deleverage | `TypeOK` `IncidentCovers` `SelectionSuffices` `DeleverageEnds` `RiskIsAnswered` | 2 options, cooldown 2, buffers 0 to 2 |
| `plan` | HedgePlan | `SettlesQuickly` `DriftIsPlanned` `Approaches` `ConsolidationKeepsHedge` `ReserveSurvives` | 3 prices, one loan size at ratios 1 and 2, at most 2 loans at the start, 2 slots, 2 moves of the world; offset, balance-first, off-venue pool and wallet hedging each on and off |
| `feeds` | CexFeeds | `SignalIsFresh` `LiarIsOutvoted` `FeedsRecover` | 3 feeds, 2 needed, one lies (just beyond the dispersion limit, or far), one flaky, 2 failures |
| `watch` | HedgeWatch | `BandsAgree` `ReplacementClears` `DriftIsAnswered` | ticks 0 to 8, 3 shapes, 3 base fees, cap 20, 3 moves of the world |
| `operations` | Onboarding | `KeyOutlivesFunds` `TradesInsideScope` `ApprovedOnly` `QuietAfterDeactivation` | 3 modifiers, 2 keys, 3 sessions, 2 transactions in flight; from nothing or from a finished setup |
| `restart` | HedgeExecution | `ConfirmedDispatchOwed`, violated | 2 intents, 1 attempt, 1 crash |

What they show.

- **`orderly`**: `Fence` is the property the journal exists for: a transaction that can
  still be mined belongs to the pending intent, so nothing is planned on top of it.
  `ObligationKept` and `SwapOnce` say that the off-venue pair is completed and
  completed once, `SwapHasCause` that no swap is sent for a dispatch that did not
  land, `PlansWhenBalanced` that nothing is sent out of turn.  `Orderly`
  rules out four single steps.  One, `Withdrawn`, is the step in which a cycle fails
  to remove the obligation of a dispatch that has not landed (disagreement 14); a
  removal may fail everywhere else.  The others are those in which the journal loses
  sight of a transaction: the process dies between a node's answer and the record of
  its hash; a start reconciles while the dispatch of the pair is still pending
  (disagreement 1); something is mined between the receipts and the nonce that one
  pass of `recover()` reads (disagreement 2).  The process may die at every other
  step and be restarted, and blocks may come between all other rounds.  Without any
  one of the four the run fails.  Three intents are a dispatch, a swap that fails or
  is lost sight of, and its retry, or what is planned after the pair.  Two attempts
  are an original and a replacement; either may be mined, evicted, refused.
- **`faults`**: everything the model can do at once.  `Fence` does not hold here
  (see below), nor does `SwapHasCause` (disagreement 14); these do: an operation
  lands at most once, and a relayed transaction keeps its intent.
- **`progress`**: liveness, and the refinement of `HedgeProtocol` over four intents, a
  dispatch and three attempts at its swap.  Foreign transactions, crashes and lost
  answers are left out, because each has a reason to hold the bot for an operator or
  to release the obligation (see [Limits](#limits)); the refinement is proved with the
  first two, and was checked with them on the bounds of `orderly`.
- **`lease`**: a holder, a taker and a taker of the taker, on a clock that lets two
  leases expire, dying at any time, overlapping their file operations and stalling
  past an expiry.  Exclusion then depends on three things the code cannot check,
  which `Timely` names: a rename finds a record that is still expired, a removal finds
  the record that was read as its own, and no send or renewal outlasts the lease it
  has checked.  Without any one of them a property of the run fails; the first is
  disagreement 4.
- **`sched_jobs`**, **`sched_sleep`**: two blocks are enough for a change before
  and a change after a snapshot; three for a scan that spans a snapshot.
  `SleepsOnFreshBands` fails in three windows, the first three notes after the
  disagreements, which `Attentive` names: once the bot is up, a cycle ends ahead of
  its snapshot with nothing queued and leaves bands that some consumed change has
  already made stale; the first scan sets the cursor beside a snapshot that is
  being read; and a scan that found a change goes unrecorded.  All three are needed,
  and everything else may happen.
- **`deleverage`**: the account moves under the loop in every way at once.  Two
  options are one that is burned and one that is left; a cooldown of 2 can end
  inside a cycle or outlast it.  `SelectionSuffices` tries every simulation
  of the snapshot's options, failures included, against every target; the
  theorem `SelectionAlwaysSuffices` covers any number of options.

- **`plan`**: the book a planner finds is any of a small set, its own or adopted,
  on either side; two moves put one event between the snapshot and the
  pre-flight, and one between the pre-flight and the send.  `SettlesQuickly` is
  against plans that undo one another: with the market at rest, three own
  transactions, six when inventory is spent first (each such swap spends 99.5 % of
  what the one before it left).  It holds only with open options: without them
  drift is relative to the hedge loans themselves.  `DriftIsPlanned` is against
  silence above the threshold, `Approaches` against signs and sides,
  `ConsolidationKeepsHedge` bounds what a consolidation may change of the hedge: a
  ratio's worth of contracts, one numeraire unit of rounding, and the share of the
  hedge that the strike is away from the tick (its spacing and the signal's
  sanity limit).  `ReserveSurvives` is about the last route that the pre-flight let through.
- **`feeds`**: three feeds stand for the seven of the code, two for the three or
  more it needs (`config.ts:529`): one of three may lie or be stale, which leaves
  a pair that can disagree, the hard case of the outlier test.  The dispersion limit
  is a share of the median, so a liar just above it may be kept and pull the
  price up to the limit over an honest quote, or down to it below one; that is what
  `LiarIsOutvoted` allows.  A unit of the
  clock is the staleness limit.
- **`watch`**: nine ticks let the search double and bisect on either side; the
  base fees are below the routine gate, between the gates, and above both, and the
  cap is reached after no more than a few replacements.  `BandsAgree` is what the code
  assumes when it compares a tick with a boundary instead of computing the drift.
  `DriftIsAnswered` goes through latched wakes, failed cycles, deferrals and
  transactions that are not mined.
- **`operations`**: three modifiers are the one that is there, its replacement,
  and one more that lands late; two keys are the funded one and the one that
  would overwrite it; three sessions are a setup that breaks off, another, and a
  resume or an activation.  Owner batches may be executed at any later time, or
  twice.

Deadlock checking is off for `HedgePlan`, `HedgeWatch`, `CexFeeds` and
`Onboarding`, whose world stops at a bound, for `Scheduler`, which really stops (shutdown, exhausted
startup), and for `InstanceLease`, whose instances all die; it is on for
`HedgeExecution` and `Deleverage`, which always have a cycle to start.

### Fairness

`HedgeExecution`: weak fairness of the process's own steps together (one thread,
the timer starts cycles, and a receipt wait has a budget).  Strong fairness of
`NewBlock` (heads keep arriving), of `Mine \/ Evict` (no transaction stays in the
mempools for ever while its nonce is next), and of `BeginSwapRecovery` (the
venue does not refuse to quote for ever: a cycle that finds an obligation may
also end without acting).  No fairness is assumed of success: aborts, reverts
and refusals may repeat until the bound on intents, which is why
`BookIsBalanced` ends with `Exhausted`.

`Scheduler`: weak fairness of startup, the reconcile timer, the steps of a cycle,
a poke, a relay, and the monitor's answers (all of these are promises with
timeouts or timers).  Strong fairness of `BotInit`, `CycleRecovers` and
`CycleSnapshots` (an RPC does not fail every time), and of `CycleFinishes`: a
cycle has at most a redeposit, two burn stages, a hedge and its swap, and one
rehedge to send, a count the model leaves out.

`CexFeeds`: weak fairness of the sampler, the clock, the reconnect timer and the
handshake.  Strong fairness of a quote on an open socket: a socket that reopens
with an old quote is recycled by the first sample after it opens, so a quote must
at some reconnection come before that.  Failures are bounded by `MaxFaults`; an
exchange that never stops failing never recovers.

`HedgeWatch`: weak fairness of the clock, the monitor, a cycle that began, the
block timer behind `Bump`, and the end of a send; of the reconcile timer only
where the monitor has no bands, because it is far slower than the monitor and
must not be what answers a drift.  Nothing is assumed of the signal or the base
fee, which is why `DriftIsAnswered` names them.

`Deleverage`: weak fairness of a cycle that began (one thread, every await has a
timeout), of the next cycle at risk (the poll and the reconcile timer), of time,
and of the resolution of a pending burn (`PendingIsSettled`).  Strong fairness of
`SelectOptions`: reads and previews do not fail every time, and the process is
not restarted every time.  Nothing is assumed of the success of a burn, of the
market, or of the user.

## Disagreements found

One has a run whose property restates the quoted line and which TLC violates.

1. **`restart`**.  `init()` reconciles the obligation also when `recover()` held
   the dispatch as still pending (`hedgerBot.ts:262`).  The dispatch is not the
   checkpoint yet, so the obligation is cleared; the dispatch then confirms and
   nothing owes its swap.  `README.md:196-198` promises the opposite.  A cycle
   does not do this: it reconciles only when nothing is pending any more.

The others have no run of their own.  Those on the journal, the lease and the
deleverager show with the fault that is named, by checking the property on the
module:

2. A swap mined between the receipt round and the nonce round has no receipt and
   a spent nonce: its entry is dropped (`hedgeJournal.ts:507`), the obligation
   stays, and the swap runs again (`SwapOnce` with
   `Faults = {"mineDuringRecovery"}`).
3. An RPC error while waiting for a receipt is not a `TxNotMinedError`, so the
   catch at `hedgerBot.ts:799` deletes the intent of a transaction that can still
   land, which the comment above it rules out (`Fence` with `receiptRpc`).  Two
   siblings: `alreadyKnown` (`keeperSender.ts:496`, against the comment at
   198-199) and `legacyFees` (the pre-1559 path's not-mined error passes through
   the `enrich()` of `rolesExecutor.ts:95-106`, against the documentation at
   `keeperSender.ts:160-162`).
4. Of two takers that read the same expired record, the slower renames the faster
   one's new directory away, and both own a lease (`instanceLease.ts:107`;
   `OneSender` with `interleave`).
5. A cycle that throws after its first option burn leaves the options stage
   cooling with options open.  The next cycle at risk skips that stage
   (`hedgerBot.ts:1705-1706`) and falls through to burning every hedge loan.
   `hedgerBot.ts:1674-1676` and `README.md:472-473` call this a last resort for
   when no options are left; the comment in the body (1702-1704) speaks of
   "eligible" options, which can be read to include the cooldown.
6. An account event consumed while an intent is pending voids the bands; if the
   cycle it wakes fails before its snapshot, the next observation finds no bands
   and does nothing, until the reconcile timer (`main.ts:874-876` says it rebuilds
   them).  `ChangeReachesSnapshot` shows that the timer does.
7. The second transaction of an off-venue hedge is pre-flighted on the account as
   it is before the first.  The withdrawal's solvency beside the new debt is never
   previewed, so the dispatch can land and the swap be refused, with the
   obligation held and nothing planned; the comment at `hedgerBot.ts:1288-1291`
   says that a venue with insufficient collateral falls back instead.
8. `hedgerBot.ts:1445-1448` says loose balances are in the delta already;
   `HEDGE_WALLET_BALANCES` is off by default (`config.ts:224`), and then the dust
   of each off-venue swap is outside the delta while balance-first swaps spend it.
9. A capacity-only consolidation "must remain state-preserving" (near
   `decision.ts:124`); under SafeMode 1 it can become a credit swap of the whole
   correction, which changes the delta and restarts the cadence.
   `ConsolidationKeepsHedge` is about the others.
10. `setup.ts:398-400` and `txWait.ts:111-115` promise that a resume picks up after
    a timeout.  A Safe or a modifier that lands after the session ended, or before
    a crash recorded it, is deployed again with the same salt, which reverts, at
    every resume.
11. A new key overwrites a keystore without the consent that the comment at
    `setup.ts:946-952` asks for, when the storage is plaintext.  With `--force`
    (constant `ForceFlag`), with a leftover keystore, or when the operator sends
    funds to the address that `setup.ts:594-596` shows before it says so, that key
    may be funded.  The run leaves these out: `ForceFlag` is false and `TopUp`
    waits for the state file.
12. Once a replacement modifier is recorded, a resume no longer knows the modifier
    it replaces: the new batch does not disable it, and the setup is accepted with
    both enabled, against the log near `existingSafe.ts:391`.  The doctor checks
    the configured one only; so does `TradesInsideScope`.
13. `cexAggregator.ts:190` says the backoff is reset on a successful reconnect; it
    is reset by the first valid quote (208).
14. In a cycle, the removal of an obligation whose dispatch has not landed may throw:
    at `hedgerBot.ts:808`, after `fail()` has deleted the dispatch's intent, or at
    287, after `recover()` has dropped it.  The obligation is then left with no
    pending intent; the next cycle returns `'clear'` at 298 without reconciling,
    and `recoverPendingSfpmSwap` (1361-1442) sends the swap without asking whether
    its dispatch landed.  The comments at 285-286 ("the pre-dispatch obligation
    must not be executed") and 266-270 say it is dropped.  `SwapHasCause` under
    `Spec` with `Faults = {"revert", "clearFails"}` shows the first,
    `SwapOnce` with `{"evict", "clearFails"}` the second.  A removal that throws in
    `init()` is harmless, as `main()` starts again from the reconciliation.

Not against any line of the repository, but worth knowing:

- The first scan after a start that held a pending intent has no cursor and
  starts at the head (`accountEventMonitor.ts:67-70`).  If it answers while a cycle
  reads its snapshot at an earlier block, a change between the two is never
  scanned, and the bot sleeps on bands without it until the reconcile timer.
- A scan that overlaps a cycle may move the cursor past a change that the cycle's
  snapshot does not include.  A follow-up cycle is queued; if it fails, the bot
  sleeps on the older bands until the reconcile timer, which `sched_jobs` shows to
  be enough.
- The patch of the heartbeat (`main.ts:862`) may throw after the scan has moved the
  cursor: a change it found voids no bands and wakes no cycle.  When the catch
  block's own patch throws as well (923), nothing handles the rejection; the model
  goes on, Node ends the process.
- If the answer to a replacement is lost and that replacement is mined, its
  receipt is never looked for: the entry is dropped as spent and the obligation
  of a dispatch is withdrawn.  The next cycle plans from the chain's positions.
- A crash between `mkdir` and the first owner record, or between the two removals
  of `release()`, leaves a lock that refuses everybody until an operator removes
  it (fault `crashInside`).
- Only deleverage cycles observe the incident.  An account that recovers by itself,
  between two cycles, leaves the incident open with its cooldowns; a new risk
  before they end meets them, and may go to the loans as in 5.
- A startup attempt that finds a post-action cycle running gets "in-flight" and
  counts as failed (`main.ts:997-1006`).
- With balance-first, what is left shrinks by 99.5 % per cycle and is hedged cycle
  after cycle as long as it is above the threshold.
- Without options, what a shrink leaves over is again a large drift of what is
  left, down to single units.
- A balanced book (no net hedge) above its slots opens one more loan before it
  consolidates.
- A snapshot above the threshold sets both boundaries to its own tick: once
  drift is back under 80 % and the signal is down, each tick that differs wakes.
- `recycleIfSilent` judges a socket that has just reopened by the quote of the one
  before it, and never a socket stuck in its handshake.
- After a broadcast whose answer is lost, `current` is not advanced and the next
  attempt sends the same fees.
- A deactivation that races a confirmed activation is undone by its last step
  (`clearDeactivation`); and after a deactivation and a later activation, a process
  that ran all along goes on under its old policy, which was confirmed as well.
- A state file left beside a written `.env` makes the next `pnpm onboard` resume
  and write `.env` again; a resume does not wait for funds.

## Proofs

TLAPS checks these for every value of the constants, under the assumptions the
modules name (bounds are naturals, faults are known faults, prices are positive).
`Answered`, `AllAnswered`, `Steady`, `CrashesOnly` and `Calm` say which faults are left
out: the run `orderly` meets the first two, `progress` the third.  `OrderlySpec`,
`TimelySpec` and `AttentiveSpec` say which steps are left out, of whatever faults there
are; the runs `orderly`, `lease` and `sched_sleep` take them.  `WithdrawnSpec` leaves
out only the first of the four steps of `Orderly`; `SwapHasCause` was checked under it
with the bounds and the faults of `faults`.

| Theorem | States | Assumes |
|---|---|---|
| `HedgeExecution_proofs!TypeCorrect` | `Spec => []TypeOK` | |
| `HedgeExecution_proofs!RelayFenceHolds` | `Spec => []RelayFence` | |
| `HedgeExecution_proofs!IntentsLandOnce` | `Spec => []LandsOnce` | |
| `HedgeExecution_proofs!FenceHolds` | `Spec => []Fence` | `Answered` |
| `HedgeExecution_proofs!CauseHolds` | `WithdrawnSpec => []SwapHasCause` | |
| `HedgeExecution_proofs!CauseHoldsWhileRemoved` | `Spec => []SwapHasCause` | no `clearFails` |
| `HedgeExecution_proofs!ObligationIsKept` | `OrderlySpec => []ObligationKept` | `AllAnswered` |
| `HedgeExecution_proofs!SwapsOnce` | `OrderlySpec => []SwapOnce` | `AllAnswered` |
| `HedgeExecution_proofs!PlansOnBalancedBook` | `OrderlySpec => []PlansWhenBalanced` | `AllAnswered` |
| `HedgeExecution_proofs!ProtocolImplemented` | `OrderlySpec => ImplementsProtocol` | `AllAnswered` |
| `HedgeExecution_proofs!ProtocolWhileAlive` | `Spec => ImplementsProtocol` | `Steady` |
| `InstanceLease_proofs!TypeCorrect` | `Spec => []TypeOK` | |
| `InstanceLease_proofs!LeaseExcludes` | `TimelySpec => []OneSender` | |
| `InstanceLease_proofs!LeaseKept` | `TimelySpec => UnexpiredIsKept` | |
| `InstanceLease_proofs!LockStaysReadable` | `TimelySpec => []LockIsReadable` | no `crashInside` |
| `InstanceLease_proofs!CrashesAreTimely` | `Spec => TimelySpec` | `CrashesOnly` |
| `InstanceLease_proofs!CrashesExclude` | `Spec => []OneSender /\ UnexpiredIsKept` | `CrashesOnly` |
| `InstanceLease_proofs!CrashedLockReadable` | `Spec => []LockIsReadable` | crashes outside the lease code |
| `Scheduler_proofs!TypeCorrect` | `Spec => []TypeOK` | |
| `Scheduler_proofs!JobsExclude` | `Spec => []AloneWithTheJournal` | |
| `Scheduler_proofs!QueueIsDrained` | `Spec => []NoTriggerStranded` | |
| `Scheduler_proofs!StoppingStartsNothing` | `Spec => NothingStartsWhileStopping` | |
| `Scheduler_proofs!BandsAreFresh` | `AttentiveSpec => []SleepsOnFreshBands` | |
| `Scheduler_proofs!CalmIsAttentive` | `Spec => AttentiveSpec` | `Calm` |
| `Deleverage_proofs!TypeCorrect` | `Spec => []TypeOK` | |
| `Deleverage_proofs!IncidentAlwaysCovers` | `Spec => []IncidentCovers` | |
| `Deleverage_proofs!SelectionIsFrugal` | what `SelectionSuffices` says, for any finite set of candidates | |
| `Deleverage_proofs!SelectionAlwaysSuffices` | `Spec => []SelectionSuffices` | |
| `HedgePlan_proofs!ReserveIsKept` | `Spec => ReserveSurvives` | |
| `HedgePlan_proofs!DriftIsAlwaysPlanned` | `Spec => []DriftIsPlanned` | |
| `HedgePlan_proofs!ConsolidationKeeps` | `Spec => ConsolidationKeepsHedge` | |
| `CexFeeds_proofs!SignalStaysFresh` | `Spec => []SignalIsFresh` | |
| `CexFeeds_proofs!LiarsAreOutvoted` | `Spec => []LiarIsOutvoted` | at most half of `MinFeeds` lie |
| `HedgeWatch_proofs!ReplacementsClear` | `Spec => ReplacementClears` | |
| `HedgeWatch_proofs!BandsAlwaysAgree` | `Spec => []BandsAgree` | |
| `Onboarding_proofs!DeactivationSilences` | `Spec => []QuietAfterDeactivation` | |
| `Onboarding_proofs!TradesAsConfirmed` | `Spec => []ApprovedOnly` | |
| `Onboarding_proofs!FundedKeySurvives` | `Spec => []KeyOutlivesFunds` | `~ForceFlag` |
| `Onboarding_proofs!TradesStayInScope` | `Spec => []TradesInsideScope` | |

**The fences.**  `Fence` is not inductive.  An intent is deleted in six ways and
each needs its own reason why nothing of it can be mined any more; `GInv`, which
holds under every fault, has those reasons:
- *reverted, or spent nonce*: a transaction in the pool has the nonce of its
  intent, which is not spent (`PoolMatches`, `MinedIsSpent`);
- *never broadcast*: there is nothing in the pool before the first broadcast
  (`FirstSendIsFresh`);
- *all attempts rejected*: an attempt is rejected or may land, never both, so
  the counts add up to at most the attempts (`AttemptsAddUp`);
- *absent from the mempools*: the mempools are asked only when every attempt has
  a hash or a rejection (`MempoolIsConclusive`), so that no transaction has an
  unknown hash, and an absence seen in an earlier block is about transactions
  that have propagated (`AbsenceIsCurrent`);
- *a send that failed*: the one way that needs an assumption.  A relay deletes its
  intent only for errors that are definitive, so `RelayFenceHolds` follows from
  `GInv` alone.  A hedge deletes it for any error but one (disagreement 3), so
  `FenceHolds` adds `NothingInFlight` and assumes `Answered`, which excludes the
  five faults under which an error does not mean what it says: a first broadcast
  or a receipt poll without a definite answer, the kill switch thrown while a
  transaction waits, and the wrapped errors of the legacy path.  Crashes, lost
  answers to replacements, evictions, foreign transactions and blocks inside
  `recover()` are all allowed, in any number.

`LandsOnce` needs no assumption either, though the intent of a landed operation may
be deleted, and its id is then in nobody's hands.  `LInv` adds to `GInv` that all
that can still be mined for one intent has one nonce (`OneNonce`), the one `PinNonce`
made durable before the first broadcast, so that the chain takes only one of them,
and that nothing can still be mined of an intent which has landed (`NotAgain`).

`TInv` underneath (part 1 of the module for the journal's share) says that ids are
unique, one entry is pending, `activeIntentId` names nothing or that entry, and
hashes come from attempts that were made.

**The off-venue pair.**  `SwapHasCause` needs one step left out, the failed removal
of `Withdrawn`, and no assumption on faults: `CInv` says that the
journal confirms only what landed (`ConfirmedLanded`), that the obligation names
an intent which is sent as a dispatch and under nothing else (`NamesDispatch`,
`DispatchSends`), and that an obligation is found only where its dispatch has
landed, is pending, or is about to be reconciled away (`ObligationHasCause`).  A
crash between any two writes leaves one of the three; a removal that fails in a
cycle leaves none, and nothing reconciles before the swap (disagreement 14).  Where
the file can be removed there is no such step (`CauseHoldsWhileRemoved`).

The other three properties of the pair, and the refinement, fail in the four
windows of `Orderly`, and they fail outside these windows when a broadcast, a
replacement or a receipt poll is not answered (`AllAnswered` excludes the faults of
disagreement 3, lost answers, and the kill switch thrown while a transaction
waits).  TLC finds a violation for each window by itself and, under `OrderlySpec`,
for each of these faults: an unanswered replacement breaks `ObligationKept`, each of
the others `Fence`, without which two plans are live at once.
With the windows closed and sends answered they hold through any number of
crashes and restarts, blocks between all other rounds, reverts, evictions, foreign
transactions, refusals, aborted sends, recovery rounds that fail, and removals of
the obligation that fail at a start or after its dispatch has landed.  `BInv` is the argument: the book is off balance by one
exactly while the obligation is `Open`, its dispatch landed and its swap not
(`Book`); whatever landed last is pending or the journal's checkpoint (`Known`), so
that reconciliation, which sees only those, decides rightly; and what is in the
mempools belongs to the pair that the obligation names (`PoolEffects`,
`PendingIsNamed`).  The windows are where a step would break one of these: an
unrecorded hash and a nonce read after a block make a landed transaction look
spent by somebody else, which takes it out of `Known`; the early reconciliation
drops the obligation of a dispatch that may yet put the `Book` off balance; the
failed removal keeps that of one which never will.  A process that lives, and can
remove its file, has no such step: `SteadyIsOrderly` gives `ProtocolWhileAlive`.

`ProtocolImplemented` then maps each step: only `Mine` changes what has landed
(`OnlyMineLands`), and it lands a new id, of the one live intent, in the order that
`Book` allows; every other step only lets transactions in or out of the pool.

**The lease.**  `Timely` is about steps, not faults: everything may crash, overlap
and stall.  `IInv` says that at most one instance has the lock in its hands, a
directory whose record it has yet to write or has just removed (`OneInHand`,
`HandsAreEmpty`): `mkdir` makes one, a rename does not touch it as it has no expired
record, and every other instance that finds it gives up.  A renewal and a send
under way are covered by an unexpired record of their own (`RenewersOwn`,
`SendersOwn`).  `SomeHand`, which a crash inside the lease code breaks, is why the lock
stays readable.  `CrashesAreTimely` discharges `Timely` where operations of two
processes do not overlap and none stalls past an expiry: the one inside is
alone (`OneInside`) and what it has read still holds (`ReadingsHold`).

**The scheduler.**  No assumption on faults.  `SInv` is the type invariant, the
count of startup attempts, `AloneWithTheJournal`, `NoTriggerStranded`, and that a
shutdown waits only while there is a job (`StopHasJob`).

`SleepsOnFreshBands` needs more, because a scan, a snapshot and an action end in
any order.  `RInv` says that the bands are up to date with the cursor or something
is on its way that renews them (`BandsUpToDate`: a cycle ahead of its snapshot, a
queued trigger, a pending intent); that a snapshot being read is up to date with
the cursor or a trigger is queued behind it (`SnapshotUpToDate`); and that the
blocks a scan asked for begin no later than the cursor (`ScanInOrder`), so that its
answer, however late, skips nothing.  Before there is a cursor, the bot is starting,
holds an intent, or is on its way to the snapshot that sets it (`CursorUnset`).
`Attentive` is needed in three places only: a cycle that fails hands the renewal on
to nobody, a cursor set beside a snapshot makes that snapshot old at once, and so
does one that moves past a change nobody is told of.  A bot that starts with an empty
journal, whose cycles do not fail and whose heartbeat is written meets none
(`CalmIsAttentive`).

**The deleverager.**  `IncidentCovers` is inductive with the type invariant: a cycle
starts by opening the incident, and only an observation of recovery, which clears
the cooldowns in the same step, or a restart closes it.  `SelectionIsFrugal` rests
on the order of the candidates being strict and total (`BeforeIsAnOrder`), so that
any set of them has a first one (`FirstOf`): the one with the fewest candidates up
to it, which exists because a set of naturals has a least element (`Least`, from
the library's theorem on well-founded relations).  The first prefix that reaches
the target is then the code's loop; and if any option alone would reach it, so
does the best one, whose prefix is itself.

**Planning.**  `RInv` is about the reserve: an assessment belongs to the block it
was made at, every step of the world makes it an old one (`AssessmentPast`), and
while it is current it is about the very route that will be sent
(`AssessmentStands`), which is the point of re-assessing after a fallback.

The other two theorems rest on sums over the book.  The folds of the community
modules pick elements in an unknown order; `SumExists`, `SumTakes` and `SumFilters`
show that a sum of integers over a finite set exists, does not depend on the order,
and ignores elements that count for nothing.  Each is by a smallest counterexample
(`SmallestSubset`), since the library's induction rules, which take an operator,
cannot be used here.  `TInv` then types every route a plan can take, through each
conversion and rounding.  `DriftHasAction` is the decision tree: a drift beyond the
threshold means a target that differs from the hedge, and two hedges of the same
sign that differ, differ in size.  For a consolidation, `FlowIsOwed` says that
burning without a swap repays exactly what the book owes, so the delta stays; and
`LoanRounds` bounds what the one loan hedges: less than a ratio's worth of contracts
is lost (`ContractsRound`), two conversions lose a unit each (`LongSize`), and the
strike lies within the spacing and the signal's sanity limit of the tick
(`StrikeLies`, for truncating division on both sides of zero).

**Feeds.**  `FreshInv`: a sample within its limit rests on quotes no older than that
limit plus its own age.  `LiarsAreOutvoted` is about medians of any finite set of
quotes: the middle positions exist (`NthExists`) and have as many quotes on either
side (`MedianIsCentral`), so a majority of honest quotes brackets them
(`MedianIsHonest`); where stale feeds leave no majority, an honest quote that was
kept is within the dispersion of the median (`KeptAreNear`), and so is the market
(`MedianNearHonest`).

**Bands.**  `BandsAgree` says that the code may compare a tick with two cached
boundaries instead of computing the drift.  `BisectFinds` and `SearchFinds` show
that the code's doubling and bisection end and return the first tick above the
threshold: any search whose measure shrinks, and whose single step preserves what it
looks for, finds it (`SearchExists`, `SearchLeadsTo`, again by a smallest
counterexample).  `DriftRises` is why a first tick is enough: in the two shapes of
book that use boundaries, drift does not fall on the way out.

**Fees.**  `RaiseClears` is the arithmetic: a quarter rounded up is at least a
tenth more, for every fee.  `BumpClears` carries it through the two fields: the
raised tip is at most the raised fee (`RaiseIsMonotone`), so that capping the tip
by the fee cannot take it below the raise.  It needs fees that are positive and
ordered; `FeeInv` says that whatever is being sent has them, from the assumption
that floors and caps are those `config.ts` accepts.

**Activation, keys and scope.**  Four inductive invariants of `Onboarding`.
`QInv`: after a deactivation beside no confirmed activation the kill switch
stands and no activation is past its confirmation, and only a confirmed one takes
the switch away.  `AInv`: the policy that is being written, the marker, and what
a live process holds were each confirmed; the bot parses `.env` before it reads
the marker, so what matters is that the marker binds all of it.  A running process
is never without a modifier, so that "no activation" matches no configuration
(`ModifierKnown`).  `KInv`: from the write of the keystore to the end of the
session the keystore holds the session's key (`SessionHasKey`); the state file's
key is on disk or discarded (`StateHasKey`); and a session starts with a new key
only when there is neither state nor configuration, and then every funded key was
discarded (`FundsHaveKey`).  `SInv`, on top of `AInv`: what the doctor read of the
modifier before the operator confirmed stays true of the marker and of the bot
that trades under it, because a batch, however late it lands and however often the
owner executes it, grants only what was reviewed (`BatchStaysInScope`), and the
owner grants other things only while nothing is activated.

## Limits

Only model-checked:

- liveness (`PendingIsSettled`, `BookIsBalanced`, `ChangeReachesSnapshot`,
  `DeleverageEnds`, `RiskIsAnswered`, `FeedsRecover`, `DriftIsAnswered`), which needs
  fairness and `ENABLED`, out of the prover's reach;
- `SettlesQuickly` and `Approaches`: how many transactions a market at rest takes,
  and whether rounding may carry the account past its target, depend on the values
  of the constants (a threshold smaller than the rounding is never met), and the
  code does not relate them;
- `ConfirmedDispatchOwed`, which is violated.

The properties of `faults` and `orderly` are checked with at most one crash and proved
for any number.

Abstractions that matter:

- *Chain.*  Mined receipts are final: the confirmation re-checks that stop
  `init()` after a reorganisation are left out.  A node's head is the chain's
  head, except for the pending count and for propagation, which takes at most
  one block; the fast monitor may be a block behind.
- *Journal.*  Which old confirmed entries are pruned is a choice; they only
  serve the re-checks.  The 32-hash limit is not reached.  Writes do not fail,
  except the removal of the obligation (`clearFails`).
- *Sender.*  Fees and balances are the outcomes they have: a replacement or a
  refusal may happen at any new head.  After a shortfall the code sends no more
  replacements; the model may.  The pre-1559 path is a choice per send.
- *Planning.*  In `HedgeExecution` any hedge may be wanted at any time; in
  `HedgePlan` sends either land or leave the account alone.  The delta of the
  options is the market's choice, LP positions are part of it.  Whether another
  pool or a netted route is cheaper is a choice; tokenIds that collide with a
  user's leg are left out.
- *Watch.*  The tick moves between cycles, not inside them (`plan` has the moves
  inside).  One send at a time, without the journal.  Drift over the tick is one of
  three shapes, which are monotone on the way out; that a real book's drift is, as
  the search for boundaries takes for granted, is assumed here and not shown.  A book
  without options, whose denominator follows the price (`frame.ts:145-165`), is none
  of the three.
- *Feeds.*  Reconnect delays are any positive time; the pool's own prices are one
  synchronous read and left out.
- *Setup.*  One Safe, one machine, one terminal beside the emergency
  deactivation; a fresh salt gives the next unused address.  The off-venue
  venue's permissions and further roles are compared like the rest and left out.
  A second key appears only while nothing is granted to the first; the owner adds
  foreign permissions only while nothing is activated; funds are sent once the
  script says it is safe to.
- *Scheduler.*  Price bands and their latches are "may wake"; trigger names,
  notifications and heartbeat contents are left out; backoff times of startup
  are the order of steps.
- *Lease.*  The heartbeat that finds the lease lost asks for a shutdown, which
  may come at any time anyway.  The owner's signer, Safe and pool are equal.
- *Deleverage.*  What a burn does to the margin is not related to what its
  simulation said.  A send that fails although its transaction lands (`receipt_rpc`)
  is a pending burn here.  Loose collateral that a cycle at risk redeposits first
  only delays it by a cycle.

Not modelled:

- configuration parsing, key encryption, logs, notifications, calldata encoding:
  no state that the properties tell apart;
- inspection scripts (doctor, status, health, inspect, measure, multi-check) and
  the one-shot owner tools (`manageRole`, `scopeBotRole`, `migrateSfpmVenue`,
  `deploySafeAndRoles`): they read and print, or send one transaction whose effect
  on permissions is what `RolesGrants` abstracts;
- the heartbeat file's contents: nothing that is sent or recorded depends on it;
- reorganisations of confirmed transactions, and the journal's limit of 32 hashes:
  both stop the bot for an operator.

## Plan

Done: the journal and everything that sends (`HedgeJournal`, `HedgeExecution`, its
abstract specification), the scheduler, the lease, the deleverager; planning,
triggers, fees, feeds; setup, activation and permissions; theorems on each.  Every
safety property a passing run checks is proved for every value of the constants
its theorem assumes (the conditions are in the table above), except
`SettlesQuickly` and `Approaches`.

Next: `Approaches` under stated relations of threshold, spacing and ratio to the size
of the book, from `LoanRounds`.
