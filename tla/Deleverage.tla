------------------------------ MODULE Deleverage ------------------------------
(***************************************************************************)
(* The emergency deleverager: the incident with its hysteresis and its     *)
(* cooldowns, the selection of the options to burn (hedge/deleverage.ts),  *)
(* and HedgerBot.runDeleverage (hedgerBot.ts), which burns options,        *)
(* rehedges and reads the account again until it is out of danger, and     *)
(* burns the hedge loans as a fallback.                                    *)
(*                                                                         *)
(* The account's health stands for the margin buffer: "risk" is            *)
(* liquidatable or below the trigger, "between" the trigger and the target *)
(* and "recovered" at or above the target.  It moves freely: the market    *)
(* does, and burning may not help.  The user opens and closes options at   *)
(* any time.  An option's number is its place in the order by |delta|.     *)
(* A cycle that redeposits loose collateral instead (hedgerBot.ts:492-500) *)
(* is a stutter; dry runs are left out.                                    *)
(***************************************************************************)
EXTENDS Integers, FiniteSets

CONSTANTS
  N,         \* bound: the options the user may hold
  Cooldown,  \* cooldownMs, in ticks
  Buffers    \* the simulated buffers that are told apart

ASSUME DeleverageAssumption ==
  /\ N \in Nat
  /\ Cooldown \in Nat \ {0}
  /\ Buffers \subseteq Nat

Options == 1..N
Stages == {"options", "loans"}
Healths == {"risk", "between", "recovered"}

VARIABLES
  options,    \* the options the account holds
  loans,      \* does it hold hedge loans
  health,
  pc,         \* where runDeleverage stands; "idle" between cycles
  read,       \* the options and loans of its last snapshot
  chosen,     \* the options of the burn under way
  count,      \* previousCount
  mayBurnLoans, \* could the loans stage run when the cycle began
  since,      \* ticks since nowMs was taken, up to Cooldown
  incident,   \* DeleverageIncident.open
  cooling,    \* ticks until a stage may run again
  pending     \* a burn that was broadcast and whose fate is not known

account == <<options, loans, health>>
cycle == <<pc, read, chosen, count, mayBurnLoans, since>>
memory == <<incident, cooling>>
vars == <<options, loans, health, pc, read, chosen, count, mayBurnLoans, since,
          incident, cooling, pending>>

NoCount == N + 1        \* Number.POSITIVE_INFINITY
NoRead == [options |-> {}, loans |-> FALSE]
NoBurn == [stage |-> "none", options |-> {}]
NotCooling == [s \in Stages |-> 0]

Burns == [stage : {"options", "rehedge", "loans"}, options : SUBSET Options] \cup {NoBurn}

TypeOK ==
  /\ options \subseteq Options
  /\ loans \in BOOLEAN
  /\ health \in Healths
  /\ pc \in {"idle", "select", "burnOptions", "rehedge", "reassess", "fallback",
             "burnLoans", "reassessLoans"}
  /\ read \in [options : SUBSET Options, loans : BOOLEAN]
  /\ chosen \subseteq Options
  /\ count \in 0..NoCount
  /\ mayBurnLoans \in BOOLEAN
  /\ since \in 0..Cooldown
  /\ incident \in BOOLEAN
  /\ cooling \in [Stages -> 0..Cooldown]
  /\ pending \in Burns

Init ==
  /\ options \in SUBSET Options
  /\ loans \in BOOLEAN
  /\ health \in Healths
  /\ pc = "idle"
  /\ read = NoRead
  /\ chosen = {}
  /\ count = NoCount
  /\ mayBurnLoans = FALSE
  /\ since = 0
  /\ incident = FALSE
  /\ cooling = NotCooling
  /\ pending = NoBurn

-------------------------------------------------------------------------------
(***************************************************************************)
(* selectOptionBurns.  A simulation gives the buffer after closing a set   *)
(* of options and rehedging, or Fails (null), which sorts last.            *)
(***************************************************************************)

Fails == -1
Simulations(candidates) == [(SUBSET candidates) \ {{}} -> Buffers \cup {Fails}]

\* Mutant of Before: the worst simulation first.
BeforeAscending(sim, a, b) == sim[{a}] < sim[{b}] \/ (sim[{a}] = sim[{b}] /\ a < b)

\* The two stable sorts: the best simulation first, then the larger |delta|.
Before(sim, a, b) == sim[{a}] > sim[{b}] \/ (sim[{a}] = sim[{b}] /\ a < b)

\* The options up to o in that order: what is selected when the loop reaches o.
UpTo(candidates, sim, o) == {p \in candidates : p = o \/ Before(sim, p, o)}

\* The first prefix that reaches the target, or else every candidate.
SelectOptionBurns(candidates, sim, target) ==
  LET reaching == {o \in candidates : sim[UpTo(candidates, sim, o)] >= target}
  IN  IF reaching = {} THEN candidates
      ELSE UpTo(candidates, sim, CHOOSE o \in reaching :
                                   \A p \in reaching \ {o} : Before(sim, o, p))

-------------------------------------------------------------------------------
(***************************************************************************)
(* The incident.                                                           *)
(***************************************************************************)

\* What observe leaves in open: it opens at risk, closes on recovery, and in
\* between stays as it was.
Observed == health = "risk" \/ (health # "recovered" /\ incident)

\* Mutant of Observe: recovery closes the incident and keeps its cooldowns.
ObserveOnlyCloses == incident' = Observed /\ UNCHANGED cooling

\* Mutant of Observe: a cooldown starts anew while the account stays at risk.
ObserveRearming ==
  /\ incident' = Observed
  /\ cooling' = [s \in Stages |-> IF Observed /\ cooling[s] > 0 THEN Cooldown ELSE 0]

Observe ==
  /\ incident' = Observed
  /\ cooling' = IF health = "recovered" THEN NotCooling ELSE cooling

CanRunStage(stage) == cooling[stage] = 0

\* markStageRun records nowMs, the time at which the cycle began.
MarkStageRun(stage) == cooling' = [cooling EXCEPT ![stage] = Cooldown - since]

-------------------------------------------------------------------------------
(***************************************************************************)
(* The cycle.                                                              *)
(***************************************************************************)

TakeSnapshot == read' = [options |-> options, loans |-> loans]

CycleEnds ==
  /\ pc' = "idle"
  /\ read' = NoRead
  /\ chosen' = {}
  /\ count' = NoCount
  /\ mayBurnLoans' = FALSE
  /\ since' = 0

\* A cycle at risk, once no intent is pending.
BeginDeleverage ==
  /\ pc = "idle" /\ pending = NoBurn /\ health = "risk"
  /\ Observe
  /\ TakeSnapshot
  /\ mayBurnLoans' = CanRunStage("loans")
  /\ pc' = IF CanRunStage("options") THEN "select" ELSE "fallback"
  /\ UNCHANGED <<account, chosen, count, since, pending>>

\* A cycle out of danger hedges as usual.  It does not observe the incident.
HedgeAsUsual ==
  /\ pc = "idle" /\ pending = NoBurn /\ health # "risk"
  /\ loans' \in BOOLEAN
  /\ UNCHANGED <<options, health, cycle, memory, pending>>

\* Mutant of SelectOptions: the options need not get fewer.
SelectOptionsAgain ==
  /\ pc = "select"
  /\ read.options # {}
  /\ count' = Cardinality(read.options)
  /\ chosen' = read.options
  /\ pc' = "burnOptions"
  /\ UNCHANGED <<account, read, mayBurnLoans, since, memory, pending>>

\* The head of the loop: some options are left, and fewer than last time.
SelectOptions ==
  /\ pc = "select"
  /\ read.options # {} /\ Cardinality(read.options) < count
  /\ count' = Cardinality(read.options)
  /\ \E sim \in Simulations(read.options), target \in Buffers :
       chosen' = SelectOptionBurns(read.options, sim, target)
  /\ pc' = "burnOptions"
  /\ UNCHANGED <<account, read, mayBurnLoans, since, memory, pending>>

NoMoreOptions ==
  /\ pc = "select"
  /\ read.options = {} \/ Cardinality(read.options) >= count
  /\ pc' = "fallback"
  /\ UNCHANGED <<account, read, chosen, count, mayBurnLoans, since, memory, pending>>

\* Held options can be burned; a burn of others reverts (CycleFails).
OptionsBurned ==
  /\ pc = "burnOptions"
  /\ chosen \subseteq options
  /\ options' = options \ chosen
  /\ MarkStageRun("options")
  /\ chosen' = {}
  /\ pc' = "rehedge"
  /\ UNCHANGED <<loans, health, read, count, mayBurnLoans, since, incident, pending>>

\* Nothing to adjust, or a mint that waits because the pool is paused.
NoRehedge ==
  /\ pc = "rehedge"
  /\ pc' = "reassess"
  /\ UNCHANGED <<account, read, chosen, count, mayBurnLoans, since, memory, pending>>

Rehedged ==
  /\ pc = "rehedge"
  /\ loans' \in BOOLEAN
  /\ pc' = "reassess"
  /\ UNCHANGED <<options, health, read, chosen, count, mayBurnLoans, since, memory, pending>>

StillTriggered ==
  /\ pc = "reassess"
  /\ Observed
  /\ Observe
  /\ TakeSnapshot
  /\ pc' = "select"
  /\ UNCHANGED <<account, chosen, count, mayBurnLoans, since, pending>>

Recovered ==
  /\ pc = "reassess"
  /\ ~Observed
  /\ Observe
  /\ CycleEnds
  /\ UNCHANGED <<account, pending>>

BurnLoans ==
  /\ pc = "fallback"
  /\ read.loans /\ mayBurnLoans
  /\ pc' = "burnLoans"
  /\ UNCHANGED <<account, read, chosen, count, mayBurnLoans, since, memory, pending>>

Exhausted ==
  /\ pc = "fallback"
  /\ ~read.loans \/ ~mayBurnLoans
  /\ CycleEnds
  /\ UNCHANGED <<account, memory, pending>>

LoansBurned ==
  /\ pc = "burnLoans"
  /\ loans' = FALSE
  /\ MarkStageRun("loans")
  /\ pc' = "reassessLoans"
  /\ UNCHANGED <<options, health, read, chosen, count, mayBurnLoans, since, incident, pending>>

ReassessLoans ==
  /\ pc = "reassessLoans"
  /\ Observe
  /\ CycleEnds
  /\ UNCHANGED <<account, pending>>

-------------------------------------------------------------------------------
(***************************************************************************)
(* Failures.                                                               *)
(***************************************************************************)

\* A read, a preview or a send throws, or a burn reverts: runCycle catches it.
\* The stage is not marked.
CycleFails ==
  /\ pc \in {"select", "burnOptions", "rehedge", "reassess", "burnLoans", "reassessLoans"}
  /\ CycleEnds
  /\ UNCHANGED <<account, memory, pending>>

\* The burn at pc, as the journal holds it.
BurnUnderWay ==
  CASE pc = "burnOptions" -> [stage |-> "options", options |-> chosen]
    [] pc = "rehedge"     -> [stage |-> "rehedge", options |-> {}]
    [] pc = "burnLoans"   -> [stage |-> "loans", options |-> {}]
    [] OTHER              -> NoBurn

\* The send times out: the intent stays active in the journal and the
\* transaction may yet land.
BurnNotMined ==
  /\ BurnUnderWay # NoBurn
  /\ pending' = BurnUnderWay
  /\ CycleEnds
  /\ UNCHANGED <<account, memory>>

\* The incident is in memory only.  A burn that was sent is in the journal.
Restart ==
  /\ CycleEnds
  /\ pending' \in {pending} \cup (IF BurnUnderWay = NoBurn THEN {} ELSE {BurnUnderWay})
  /\ incident' = FALSE
  /\ cooling' = NotCooling
  /\ UNCHANGED account

\* The pending burn lands or never will, and the next cycle resolves it.
PendingLands ==
  /\ pc = "idle" /\ pending # NoBurn
  /\ options' = IF pending.options \subseteq options THEN options \ pending.options
                                                     ELSE options
  /\ loans' \in (CASE pending.stage = "loans"   -> {FALSE}
                   [] pending.stage = "rehedge" -> BOOLEAN
                   [] OTHER                     -> {loans})
  /\ pending' = NoBurn
  /\ UNCHANGED <<health, cycle, memory>>

PendingDropped ==
  /\ pc = "idle" /\ pending # NoBurn
  /\ pending' = NoBurn
  /\ UNCHANGED <<account, cycle, memory>>

-------------------------------------------------------------------------------
(***************************************************************************)
(* The user, the market and the clock.                                     *)
(***************************************************************************)

UserTrades ==
  /\ options' \in SUBSET Options
  /\ UNCHANGED <<loans, health, cycle, memory, pending>>

Market ==
  /\ health' \in Healths
  /\ UNCHANGED <<options, loans, cycle, memory, pending>>

\* Mutant of Tick: time goes on past the end of a cooldown.
TickPastZero ==
  /\ cooling' = [s \in Stages |-> cooling[s] - 1]
  /\ UNCHANGED <<account, cycle, incident, pending>>

Tick ==
  /\ cooling' = [s \in Stages |-> IF cooling[s] > 0 THEN cooling[s] - 1 ELSE 0]
  /\ since' = IF pc # "idle" /\ since < Cooldown THEN since + 1 ELSE since
  /\ UNCHANGED <<account, pc, read, chosen, count, mayBurnLoans, incident, pending>>

-------------------------------------------------------------------------------

\* The steps of runDeleverage after its first.
Running ==
  \/ SelectOptions \/ NoMoreOptions \/ OptionsBurned \/ NoRehedge \/ Rehedged
  \/ StillTriggered \/ Recovered \/ BurnLoans \/ Exhausted \/ LoansBurned \/ ReassessLoans
  \/ CycleFails \/ BurnNotMined

Next ==
  \/ BeginDeleverage \/ HedgeAsUsual
  \/ SelectOptions \/ NoMoreOptions \/ OptionsBurned \/ NoRehedge \/ Rehedged
  \/ StillTriggered \/ Recovered \/ BurnLoans \/ Exhausted \/ LoansBurned \/ ReassessLoans
  \/ CycleFails \/ BurnNotMined \/ Restart
  \/ PendingLands \/ PendingDropped
  \/ UserTrades \/ Market \/ Tick

Spec == Init /\ [][Next]_vars

(***************************************************************************)
(* A cycle that began goes on, polling goes on (main.ts), time passes, a   *)
(* pending burn is resolved (HedgeExecution), and reading the account does *)
(* not fail for ever.                                                      *)
(***************************************************************************)
FairSpec ==
  /\ Spec
  /\ WF_vars(Running)
  /\ WF_vars(BeginDeleverage)
  /\ WF_vars(Tick)
  /\ WF_vars(PendingLands \/ PendingDropped)
  /\ SF_vars(SelectOptions)

-------------------------------------------------------------------------------
(***************************************************************************)
(* Properties.                                                             *)
(***************************************************************************)

\* A cooldown belongs to an open incident, and nothing is burned outside one:
\* recovery closes the incident and forgets its cooldowns together, whatever
\* the order of observations, marks, failures and restarts.
IncidentCovers ==
  /\ (pc # "idle" => incident)
  /\ (cooling # NotCooling => incident)

\* Whatever the simulations of the options in the snapshot say, the selection
\* reaches the target or burns all, and when one option alone would do it burns
\* one option (deleverage.ts:171-174: "until the target buffer is reached").
SelectionSuffices ==
  \A target \in Buffers, sim \in Simulations(read.options) :
    LET burned == SelectOptionBurns(read.options, sim, target)
    IN  /\ burned = read.options \/ sim[burned] >= target
        /\ (\E o \in read.options : sim[{o}] >= target) => Cardinality(burned) = 1

\* However the user reopens options while the loop burns them, it ends:
\* the remaining options must get fewer (hedgerBot.ts:1708-1713).
DeleverageEnds == (pc # "idle") ~> (pc = "idle")

\* While the account stays at risk and holds options, some of them are sent to
\* be burned: no cooldown, fallback or pending burn defers this for ever.
RiskIsAnswered ==
  (health = "risk" /\ options # {})
    ~> (health # "risk" \/ options = {} \/ pc = "burnOptions")

===============================================================================
