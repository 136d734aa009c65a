------------------------------ MODULE HedgeWatch ------------------------------
(***************************************************************************)
(* From a price move to a landed hedge: the fast monitor of                *)
(* src/src/main.ts wakes a cycle through the latches of HedgeTriggers or   *)
(* its retry, the cycle needs a signal and the gas gate of GasPolicy, and  *)
(* the keeper sender raises the fees of its transaction until it lands.    *)
(*                                                                         *)
(* The journal, the queue and the event cursor are those of HedgeExecution *)
(* and Scheduler; here an intent that is not mined is "held" until it      *)
(* lands or its transaction is forgotten.  A move of the tick while a      *)
(* cycle runs is seen only after it, so ticks move between cycles.         *)
(***************************************************************************)
EXTENDS HedgeTriggers, GasPolicy

CONSTANTS
  BaseFees,         \* base fees of the market
  Estimate,         \* the node's estimate of the tip
  Need,             \* the tip that block builders ask for
  UrgentMultiplier, \* URGENT_DRIFT_MULTIPLIER
  RetryAfter,       \* DEGRADED_RECONCILE_INTERVAL_MS, in clock units
  MaxMoves          \* bound on the moves of the world and on failures

ASSUME WatchAssumption ==
  /\ BaseFees \subseteq Nat \ {0} /\ (\E b \in BaseFees : b <= HedgeMaxBase)
  /\ Estimate \in Nat /\ Need \in Nat
  /\ UrgentMultiplier \in Nat \ {0} /\ RetryAfter \in Nat \ {0} /\ MaxMoves \in Nat

VARIABLES
  shape,     \* the kind of book
  tick,      \* the pool's tick
  neutral,   \* the tick at which the account is neutral
  changed,   \* an account event waits for the monitor's scan
  signal,    \* the price source answers
  base,      \* the market's base fee
  mon,       \* the monitor's cached snapshot with its latches
  sinceWake, \* clock units since lastCrossedWakeAt
  pc,        \* "idle", "cycle", "planned", "sending", "capped" or "held"
  send,      \* the transaction: its fees, urgency and the tick it hedges
  moves

vars == <<shape, tick, neutral, changed, signal, base, mon, sinceWake, pc, send, moves>>
market == <<shape, tick, neutral, changed, signal, base>>

NoSend == [fees |-> NoFees, urgent |-> FALSE, target |-> 0]

Drift == DriftAt(shape, neutral, tick)

Move == moves < MaxMoves /\ moves' = moves + 1

-----------------------------------------------------------------------------
(* The world.                                                              *)

PriceMoves ==
  /\ Move /\ pc \in {"idle", "held"}
  /\ tick' \in Ticks \ {tick}
  /\ UNCHANGED <<shape, neutral, changed, signal, base, mon, sinceWake, pc, send>>

\* The user trades: the account's events wait to be scanned.
AccountChanges ==
  /\ Move /\ pc \in {"idle", "held"}
  /\ neutral' \in Ticks \ {neutral}
  /\ changed' = TRUE
  /\ UNCHANGED <<shape, tick, signal, base, mon, sinceWake, pc, send>>

SignalToggles ==
  /\ Move
  /\ signal' = ~signal
  /\ UNCHANGED <<shape, tick, neutral, changed, base, mon, sinceWake, pc, send>>

BaseFeeMoves ==
  /\ Move
  /\ base' \in BaseFees \ {base}
  /\ UNCHANGED <<shape, tick, neutral, changed, signal, mon, sinceWake, pc, send>>

Tick ==
  /\ sinceWake < RetryAfter
  /\ sinceWake' = sinceWake + 1
  /\ UNCHANGED <<market, mon, pc, send, moves>>

-----------------------------------------------------------------------------
(* The fast monitor.                                                       *)

\* Mutant: a drift that stays is not looked at again.
RetryNever == FALSE

\* The retry of a crossing that its wake did not hedge.
Retry == DriftAt(shape, mon.neutral, tick) > Threshold /\ sinceWake >= RetryAfter

\* An account event invalidates the bands.
MonitorSeesEvent ==
  /\ pc = "idle" /\ changed
  /\ changed' = FALSE /\ mon' = NoBands
  /\ pc' = "cycle"
  /\ UNCHANGED <<shape, tick, neutral, signal, base, sinceWake, send, moves>>

MonitorObserves ==
  /\ pc = "idle" /\ ~changed /\ mon.known
  /\ LET o == Observe(shape, mon, tick)
         wakes == o.reason # "none" \/ Retry
     IN  /\ mon' = o.mon
         /\ sinceWake' = IF o.reason = "hedge-crossed" \/ (o.reason = "none" /\ Retry)
                         THEN 0 ELSE sinceWake
         /\ pc' = IF wakes THEN "cycle" ELSE pc
  /\ UNCHANGED <<market, send, moves>>

\* While an intent is held the monitor consumes events and only wakes its
\* recovery.
MonitorHolds ==
  /\ pc = "held" /\ changed
  /\ changed' = FALSE /\ mon' = NoBands
  /\ UNCHANGED <<shape, tick, neutral, signal, base, sinceWake, pc, send, moves>>

\* The reconcile timer.
Reconcile ==
  /\ pc = "idle"
  /\ pc' = "cycle"
  /\ UNCHANGED <<market, mon, sinceWake, send, moves>>

-----------------------------------------------------------------------------
(* The cycle.                                                              *)

\* No signal: the cycle is skipped before it takes a snapshot.
CycleSkips ==
  /\ pc = "cycle" /\ ~signal
  /\ pc' = "idle"
  /\ UNCHANGED <<market, mon, sinceWake, send, moves>>

CycleFails ==
  /\ Move /\ pc = "cycle"
  /\ pc' = "idle"
  /\ UNCHANGED <<market, mon, sinceWake, send>>

\* The snapshot refreshes the bands and the event cursor.
CyclePlans ==
  /\ pc = "cycle" /\ signal
  /\ mon' = Refresh(shape, neutral, tick)
  /\ changed' = FALSE
  /\ pc' = IF Drift > Threshold THEN "planned" ELSE "idle"
  /\ send' = IF Drift > Threshold
             THEN [fees |-> NoFees, urgent |-> Drift >= UrgentMultiplier * Threshold, target |-> tick]
             ELSE send
  /\ UNCHANGED <<shape, tick, neutral, signal, base, sinceWake, moves>>

\* A spike defers the hedge.
Defers ==
  /\ pc = "planned" /\ ~Proceeds(base, send.urgent)
  /\ pc' = "idle" /\ send' = NoSend
  /\ UNCHANGED <<market, mon, sinceWake, moves>>

\* The gate's fresh base fee is the one the first fees are computed from.
Sends ==
  /\ pc = "planned" /\ Proceeds(base, send.urgent)
  /\ send' = [send EXCEPT !.fees = FreshFees(base, Estimate, send.urgent)]
  /\ pc' = "sending"
  /\ UNCHANGED <<market, mon, sinceWake, moves>>

-----------------------------------------------------------------------------
(* The transaction.                                                        *)

Mineable == base <= send.fees.max /\ Lower(send.fees.tip, send.fees.max - base) >= Need

\* Mutant: a replacement is computed from the market alone.
BumpFresh ==
  /\ pc = "sending"
  /\ LET next == FreshFees(base, Estimate, send.urgent)
     IN  IF next = NoFees THEN pc' = "capped" /\ send' = send
         ELSE pc' = pc /\ send' = [send EXCEPT !.fees = next]
  /\ UNCHANGED <<market, mon, sinceWake, moves>>

\* A block later without a receipt: replace the transaction, or stop at the cap.
Bump ==
  /\ pc = "sending"
  /\ LET next == Bumped(send.fees, FreshFees(base, Estimate, send.urgent))
     IN  IF next = NoFees THEN pc' = "capped" /\ send' = send
         ELSE pc' = pc /\ send' = [send EXCEPT !.fees = next]
  /\ UNCHANGED <<market, mon, sinceWake, moves>>

\* The hedge lands: it invalidates the bands and queues a cycle.
Lands ==
  /\ pc \in {"sending", "capped"} /\ Mineable
  /\ neutral' = send.target /\ changed' = TRUE
  /\ mon' = NoBands
  /\ pc' = "cycle" /\ send' = NoSend
  /\ UNCHANGED <<shape, tick, signal, base, sinceWake, moves>>

\* The receipt budget runs out.
NotMined ==
  /\ pc = "capped" \/ (pc = "sending" /\ Move)
  /\ pc' = "held"
  /\ IF pc = "capped" THEN UNCHANGED moves ELSE TRUE
  /\ UNCHANGED <<market, mon, sinceWake, send>>

\* Recovery finds the transaction mined.
HeldLands ==
  /\ pc = "held" /\ Mineable
  /\ neutral' = send.target /\ changed' = TRUE
  /\ pc' = "cycle" /\ send' = NoSend
  /\ UNCHANGED <<shape, tick, signal, base, mon, sinceWake, moves>>

\* Recovery finds it forgotten.
HeldDropped ==
  /\ pc = "held" /\ ~Mineable
  /\ pc' = "cycle" /\ send' = NoSend
  /\ UNCHANGED <<market, mon, sinceWake, moves>>

Init ==
  /\ shape \in Shapes
  /\ tick = MaxTick \div 2 /\ neutral = MaxTick \div 2
  /\ changed = FALSE /\ signal = TRUE
  /\ base = CHOOSE b \in BaseFees : b <= HedgeMaxBase
  /\ mon = NoBands /\ sinceWake = RetryAfter
  /\ pc = "cycle" /\ send = NoSend /\ moves = 0

World == PriceMoves \/ AccountChanges \/ SignalToggles \/ BaseFeeMoves

Cycle == CycleSkips \/ CyclePlans \/ Defers \/ Sends

Transaction == Lands \/ NotMined \/ HeldLands \/ HeldDropped

Monitor == MonitorSeesEvent \/ MonitorObserves \/ MonitorHolds

Next == World \/ Tick \/ Monitor \/ Reconcile \/ Cycle \/ CycleFails \/ Bump \/ Transaction

Spec == Init /\ [][Next]_vars

\* Timers fire, cycles end and blocks come.  The reconcile timer is far slower
\* than the monitor: it is needed only where the monitor has no bands.
Fairness ==
  /\ WF_vars(Tick) /\ WF_vars(Monitor) /\ WF_vars(Reconcile /\ ~mon.known)
  /\ WF_vars(Cycle) /\ WF_vars(Bump) /\ WF_vars(Transaction)

FairSpec == Spec /\ Fairness

-----------------------------------------------------------------------------
(* Properties.                                                             *)

TypeOK ==
  /\ shape \in Shapes /\ tick \in Ticks /\ neutral \in Ticks
  /\ changed \in BOOLEAN /\ signal \in BOOLEAN /\ base \in BaseFees
  /\ mon = NoBands \/ mon \in [known : {TRUE}, neutral : Ticks, at : Ticks,
                               approachLatched : BOOLEAN, crossingLatched : BOOLEAN]
  /\ sinceWake \in 0..RetryAfter
  /\ pc \in {"idle", "cycle", "planned", "sending", "capped", "held"}
  /\ send \in [fees : Fees, urgent : BOOLEAN, target : Ticks]
  /\ moves \in 0..MaxMoves

\* The cached boundaries stand for the drift itself: a snapshot within the
\* threshold calls a tick crossed exactly when its drift is above.
BandsAgree ==
  mon.known /\ DriftAt(shape, mon.neutral, mon.at) <= Threshold =>
    \A t \in Ticks :
      Beyond(shape, mon, t, Threshold) <=> DriftAt(shape, mon.neutral, t) > Threshold

\* Every replacement is one the node takes, within the cap, whatever the market
\* did since the attempt before it.
ReplacementClears ==
  [][pc = "sending" /\ pc' = "sending" /\ send' # send =>
       /\ NodeTakes(send'.fees, send.fees)
       /\ send'.fees.tip <= send'.fees.max /\ send'.fees.max <= MaxFee]_vars

\* When the world rests, a drift beyond the threshold is hedged, through latched
\* wakes, skipped cycles, deferrals and sends that were not mined, unless the
\* signal stays away or the base fee above the routine gate.
DriftIsAnswered == <>[](Drift <= Threshold \/ ~signal \/ base > HedgeMaxBase)

=============================================================================
