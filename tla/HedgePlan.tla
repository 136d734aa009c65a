----------------------------- MODULE HedgePlan -----------------------------
(***************************************************************************)
(* The hedge planner and the cycle around it: exposure and drift, the      *)
(* five-case plan with its capacity overlay, the choice of a route (the    *)
(* in-pool dispatch, the netted shrink, a collateral swap), the margin     *)
(* reserve before planning and before sending, and the send, with a market *)
(* that moves between any two of them.  The journal's side of a send is    *)
(* HedgeExecution's; here a send either lands or leaves the account alone. *)
(***************************************************************************)
EXTENDS LoanBook

CONSTANTS
  ThresholdBps,    \* DELTA_THRESHOLD_BPS
  TimedMinBps,     \* TIMED_HEDGE_MIN_DRIFT_BPS, used only while the cadence is due
  Offsets,         \* the DELTA_OFFSET_BPS a deployment may have
  MaxSlots,        \* MAX_HEDGE_SLOTS
  SanityMax,       \* SIGNAL_TICK_SANITY_MAX, in ticks
  SlippageTicks,   \* slippageBpsToTickDistance(SLIPPAGE_BPS)
  ReserveBps,      \* MIN_MARGIN_RESERVE_BPS
  RequireBps,      \* what the protocol requires of a debt (external)
  FeeBps,          \* commission of a temporary loan (external)
  BalanceFirst,    \* the BALANCE_FIRST_ENABLED it may have
  Venue,           \* whether it may have an off-venue pool (SFPM_SWAP_ENABLED)
  HedgeWallet,     \* the HEDGE_WALLET_BALANCES it may have with one
  TicksBelow,      \* the market visits so many ticks on each side of zero
  TicksAbove,
  OptionDeltas,    \* deltas the option book can have
  OptionSize,      \* its size while it is open
  StartAsset,      \* collateral of the account at the start, in both tokens
  StartNumeraire,
  LoanSizes,       \* contracts of the loans it finds open, or a user adds
  StartLoans,      \* at most so many of them
  Transfer,        \* asset that a user sends to the Safe's wallet
  MaxMoves,        \* bound on what the world does
  MaxQuiet         \* where the count of own transactions saturates

ASSUME PlanAssumption ==
  /\ ThresholdBps \in Nat /\ TimedMinBps \in Nat /\ Offsets \subseteq Int
  /\ MaxSlots \in Nat \ {0} /\ SanityMax \in Nat /\ SlippageTicks \in Nat
  /\ ReserveBps \in 0..BPS /\ RequireBps \in Nat /\ FeeBps \in Nat
  /\ BalanceFirst \subseteq BOOLEAN /\ Venue \subseteq BOOLEAN /\ HedgeWallet \subseteq BOOLEAN
  /\ Transfer \in Nat /\ OptionSize \in Nat /\ MaxMoves \in Nat /\ MaxQuiet \in Nat
  /\ StartAsset \in Nat /\ StartNumeraire \in Nat /\ LoanSizes \subseteq Nat
  /\ StartLoans \in Nat /\ OptionDeltas \subseteq Int
  /\ TicksBelow \in Nat /\ TicksAbove \in Nat
  /\ TicksBelow + Spacing <= Unit  \* prices stay positive down to the lowest strike

Ticks == (-TicksBelow)..TicksAbove

VARIABLES
  config,     \* what differs between deployments
  tick,       \* the pool's current tick
  signal,     \* the tick of the price source
  options,    \* delta and size of the user's option positions
  acc,        \* the Safe's collateral, loans and wallet
  owed,       \* the off-venue swap still owed, or NoSwap
  due,        \* the timed cadence has elapsed
  safeMode,   \* the pool's SafeMode level, 0 or 1
  pc,         \* "idle", "planned", "checked", "swapping"
  plan,       \* the intent and route of the current cycle
  moves,      \* steps of the world so far
  quiet       \* own transactions since the world last moved, up to MaxQuiet

vars == <<config, tick, signal, options, acc, owed, due, safeMode, pc, plan, moves, quiet>>
world == <<config, tick, signal, options, safeMode, moves>>

-----------------------------------------------------------------------------
(* Exposure and drift.                                                     *)

NoSwap == [sell |-> "asset", amount |-> 0]

NetDelta ==
  options.delta + BookDelta(acc) + (IF config.hedgeWallet THEN acc.loose.asset ELSE 0)

\* computeHedgeExposure and computeHedgeDrift on the current snapshot.
Exposure ==
  LET short  == Gross(acc.book, "short", tick)
      long   == Gross(acc.book, "long", tick)
      basis  == IF options.size > 0 THEN options.size ELSE short + long
      effective == NetDelta - Quotient(basis * config.offsetBps, BPS)
  IN  [H |-> long - short, Hstar |-> (long - short) - effective,
       basis |-> basis, effective |-> effective,
       drift |-> IF basis > 0 THEN Quotient(Magnitude(effective) * BPS, basis) ELSE 0]

HardDrift(e) == e.drift > ThresholdBps
OverCap == Cardinality(acc.book) > MaxSlots
TimedDrift(e) == ~HardDrift(e) /\ ~OverCap /\ due /\ e.drift > TimedMinBps
DeltaDrift(e) == HardDrift(e) \/ TimedDrift(e)

Direction(x) == IF x > 0 THEN "long" ELSE "short"

\* Loans on both sides of a book whose net is not zero.
MixedBook(e) == e.H # 0 /\ \E l \in acc.book : l.side # Direction(e.H)

\* Mutant: a GROW that has no slot left is dropped.
ActionFull(e) ==
  CASE e.basis = 0 \/ ~(DeltaDrift(e) \/ OverCap) -> "none"
    [] e.basis # 0 /\ ~DeltaDrift(e) /\ OverCap -> "consolidate"
    [] e.basis # 0 /\ DeltaDrift(e) ->
         IF e.H = 0 THEN IF e.Hstar = 0 THEN "none" ELSE "open"
         ELSE IF e.Hstar = 0 THEN "close_all"
         ELSE IF ~SameSign(e.H, e.Hstar) THEN "flip"
         ELSE IF Magnitude(e.Hstar) < Magnitude(e.H) THEN "shrink"
         ELSE IF Cardinality(acc.book) < MaxSlots THEN "grow" ELSE "none"

\* The five-case tree with the capacity overlay ahead of it; "rebuild" is the
\* code's growConsolidate, a consolidation that changes the delta.
Action(e) ==
  CASE e.basis = 0 \/ ~(DeltaDrift(e) \/ OverCap) -> "none"
    [] e.basis # 0 /\ ~DeltaDrift(e) /\ OverCap /\ MixedBook(e) -> "rebuild"
    [] e.basis # 0 /\ ~DeltaDrift(e) /\ OverCap /\ ~MixedBook(e) -> "consolidate"
    [] e.basis # 0 /\ DeltaDrift(e) ->
         IF e.H = 0 THEN IF e.Hstar = 0 THEN "none" ELSE "open"
         ELSE IF e.Hstar = 0 THEN "close_all"
         ELSE IF ~SameSign(e.H, e.Hstar) THEN "flip"
         ELSE IF Magnitude(e.Hstar) > Magnitude(e.H)
              THEN IF Cardinality(acc.book) + 1 > MaxSlots THEN "rebuild" ELSE "grow"
         ELSE IF Magnitude(e.Hstar) < Magnitude(e.H) THEN "shrink"
         ELSE IF OverCap THEN "consolidate" ELSE "none"

\* SHRINK burns net-side loans from the smallest up while what went before is
\* short of the amount to remove, and remints what the last one burned too much.
Smaller(a, b) ==
  \/ SizeAt(a, tick) < SizeAt(b, tick)
  \/ /\ SizeAt(a, tick) = SizeAt(b, tick)
     /\ \/ a.ratio < b.ratio
        \/ a.ratio = b.ratio /\ a.strike < b.strike

ShrinkBurns(candidates, remove) ==
  LET size(l) == SizeAt(l, tick)
  IN  {l \in candidates : SumOf(size, {k \in candidates : Smaller(k, l)}) < remove}

\* Mutant: a SHRINK takes loans of either side.
BurnsAnySide(e) ==
  CASE Action(e) \in {"none", "open", "grow"} -> {}
    [] Action(e) \in {"close_all", "flip", "rebuild", "consolidate"} -> acc.book
    [] Action(e) = "shrink" -> ShrinkBurns(acc.book, Magnitude(e.H) - Magnitude(e.Hstar))

Burns(e) ==
  CASE Action(e) \in {"none", "open", "grow"} -> {}
    [] Action(e) \in {"close_all", "flip", "rebuild", "consolidate"} -> acc.book
    [] Action(e) = "shrink" ->
         ShrinkBurns(OfSide(acc.book, Direction(e.H)), Magnitude(e.H) - Magnitude(e.Hstar))

\* Mutant: a GROW opens the whole target beside the loans it keeps.
MintSizeWhole(e) ==
  CASE Action(e) \in {"none", "close_all"} -> 0
    [] Action(e) \in {"open", "flip", "rebuild", "grow"} -> e.Hstar
    [] Action(e) = "consolidate" -> e.H
    [] Action(e) = "shrink" -> e.Hstar

\* Mutant: a consolidation is sized to the target.
MintSizeTarget(e) ==
  CASE Action(e) \in {"none", "close_all"} -> 0
    [] Action(e) = "grow" -> e.Hstar - e.H
    [] OTHER -> e.Hstar

\* The signed size to mint, 0 for no mint.
MintSize(e) ==
  CASE Action(e) \in {"none", "close_all"} -> 0
    [] Action(e) \in {"open", "flip", "rebuild"} -> e.Hstar
    [] Action(e) = "consolidate" -> e.H
    [] Action(e) = "grow" -> e.Hstar - e.H
    [] Action(e) = "shrink" ->
         LET size(l) == SizeAt(l, tick)
             rest == SumOf(size, Burns(e)) - (Magnitude(e.H) - Magnitude(e.Hstar))
         IN  IF e.H > 0 THEN rest ELSE -rest

Mints(e) ==
  IF MintSize(e) = 0 THEN {}
  ELSE {BuildUniqueLoan(acc.book, Direction(MintSize(e)), RoundedStrike(signal),
                        Magnitude(MintSize(e)))}

\* With every optionRatio of its strike in use, no loan can be built and the
\* cycle fails.
Mintable(e) ==
  MintSize(e) # 0 => FreeRatios(acc.book, Direction(MintSize(e)), RoundedStrike(signal)) # {}

\* The intent of computeHedgePlan; the execution limits sit around the pool's tick.
Intent(e) ==
  [action |-> Action(e), burns |-> Burns(e), mints |-> Mints(e),
   swap |-> Action(e) # "consolidate", at |-> tick, correction |-> e.Hstar - e.H]

-----------------------------------------------------------------------------
(* Margin.                                                                 *)

\* normalizePostDispatchMargin: balance and requirement in both numeraires.
MarginOf(a, t) ==
  LET need(side) == Quotient(Owed(a.book, side) * RequireBps, BPS)
  IN  {[balance |-> a.asset + ToAsset(a.nume, t),
        required |-> need("short") + ToAsset(need("long"), t)],
       [balance |-> a.nume + ToNumeraire(a.asset, t),
        required |-> need("long") + ToNumeraire(need("short"), t)]}

\* assessMarginReserve for a dispatch with a mint.
ReserveKept(a, t) ==
  \A m \in MarginOf(a, t) :
    LET free == IF m.balance > m.required THEN m.balance - m.required ELSE 0
    IN  m.balance # 0 /\ free * BPS >= m.balance * ReserveBps

\* What the protocol accepts: no token overdrawn and the account solvent.
Accepted(a, t) ==
  /\ a.asset >= 0 /\ a.nume >= 0
  /\ \A m \in MarginOf(a, t) : m.balance >= m.required

-----------------------------------------------------------------------------
(* Routes.                                                                 *)

\* Loans of the vault asset on one side: the borrowed token is the leg's asset.
NettedEligible(i) ==
  /\ i.action = "shrink" /\ i.mints # {} /\ i.burns # {}
  /\ \A l \in i.burns \union i.mints : l.side = "short"
  /\ Owed(i.burns, "short") > Owed(i.mints, "short")

NextTemporaryLoan(current) == current + (current + 19) \div 20

\* The temporary loan after n growths of the exact reduction.
TemporaryLoan(i) ==
  LET loan[n \in 0..7] ==
        IF n = 0 THEN Owed(i.burns, "short") - Owed(i.mints, "short")
        ELSE NextTemporaryLoan(loan[n - 1])
  IN  loan

\* The account after a route at tick t.  A netted shrink swaps only the net
\* reduction, so it ends where the in-pool one does, less the commission.
After(i, route, t) ==
  LET done == Settle(acc, i.burns, i.mints, i.swap, t)
  IN  CASE route.kind = "in-pool" -> done
        [] route.kind = "netted" ->
             [done EXCEPT !.asset = @ - Quotient(route.amount * FeeBps, BPS)]
        [] route.kind \in {"balance", "credit"} -> Exchange(acc, route.amount, t)
        [] route.kind = "off-venue" -> Settle(acc, i.burns, i.mints, FALSE, t)
        [] route.kind = "venue" -> Swapped(acc, route.swap, route.quoted, t)

InPool == [kind |-> "in-pool", amount |-> 0]

\* The batch of an off-venue swap: within the band around its quote, above its
\* floor, and the withdrawal leaves the account solvent.
SwapOk(a, swap, quoted, t) ==
  /\ MinOut(swap, quoted) > 0 /\ Output(swap, t) >= MinOut(swap, quoted)
  /\ Magnitude(t - quoted) <= SlippageTicks
  /\ Withdrawal(a, swap) > 0 => Accepted(Withdrawn(a, swap), t)

\* SafeMode 1 is close-only: a mint does not simulate.
PreviewOk(i, route, t) ==
  IF route.kind = "venue" THEN SwapOk(acc, route.swap, route.quoted, t)
  ELSE /\ route.kind \in {"in-pool", "netted", "off-venue"} =>
            /\ safeMode = 1 => i.mints = {}
            /\ \A l \in i.mints : l.positionSize > 0
       /\ Accepted(After(i, route, t), t)

Sufficient(i, route, t) == PreviewOk(i, route, t) /\ ReserveKept(After(i, route, t), t)

\* spendableAfterCollateralReserve: 0.5% rounded up stays.
Spendable(balance) == balance - (balance * 50 + (BPS - 1)) \div BPS

\* planBalanceFirstSwap: inventory instead of a loan, for OPEN and GROW.  The
\* off-venue swap spends the wallet too, the in-pool one only collateral.
BalanceRoutes(i) ==
  LET sell == IF \E l \in i.mints : l.side = "short" THEN "asset" ELSE "nume"
      amountIn == Owed(i.mints, "short") + Owed(i.mints, "long")
      spendable == Spendable(acc[sell] + acc.loose[sell])
      venue == [kind |-> "venue", quoted |-> tick,
                swap |-> [sell |-> sell, amount |-> Least2(spendable, amountIn)]]
      spend == Least2(Least2(acc[sell], spendable), amountIn)
      inPool == [kind |-> "balance",
                 amount |-> IF sell = "asset" THEN -spend ELSE ToAsset(spend, tick)]
  IN  IF /\ config.balanceFirst /\ safeMode # 1 /\ i.action \in {"open", "grow"}
         /\ i.mints # {} /\ spendable # 0
      THEN {r \in {venue} : config.venue} \union {r \in {inPool} : inPool.amount # 0}
      ELSE {}

\* planSafeModeCreditSwap: exact-out when affordable, else what can be spent.
CreditRoutes(i) ==
  LET c == i.correction
      dx == IF c < 0 THEN -Least2(-c, Spendable(acc.asset))
            ELSE IF ToNumeraire(c, tick) <= Spendable(acc.nume) THEN c
            ELSE ToAsset(Spendable(acc.nume), tick)
  IN  IF safeMode = 1 /\ dx # 0 THEN {[kind |-> "credit", amount |-> dx]} ELSE {}

\* resolveNettedShrinkDispatch: the loan of the first growth that simulates.
NettedRoutes(i) ==
  IF NettedEligible(i) /\ safeMode # 1
  THEN {r \in {[kind |-> "netted", amount |-> TemporaryLoan(i)[n]] : n \in 0..7} :
          PreviewOk(i, r, tick)}
  ELSE {}

\* evaluate of the venue coordinator: the in-pool swap is what the dispatch with
\* its swap does and the one without does not, if that is one swap at all.
NettingSwaps(i) ==
  LET noSwap == [kind |-> "off-venue"]
      with  == After(i, InPool, tick)
      asset == with.asset - After(i, noSwap, tick).asset
      nume  == with.nume - After(i, noSwap, tick).nume
  IN  IF /\ PreviewOk(i, InPool, tick) /\ PreviewOk(i, noSwap, tick)
         /\ asset # 0 /\ nume # 0 /\ ~SameSign(asset, nume)
      THEN {IF asset < 0 THEN [sell |-> "asset", amount |-> -asset]
            ELSE [sell |-> "nume", amount |-> -nume]}
      ELSE {}

\* executeIntent: the swap goes off-venue if its batch simulates on the account
\* as it is now; whether the other pool is cheaper is the market's choice.
OffVenueRoutes(i) ==
  IF config.venue /\ i.swap
  THEN {[kind |-> "off-venue", quoted |-> tick, swap |-> s] :
          s \in {x \in NettingSwaps(i) : SwapOk(acc, x, tick, tick)}}
  ELSE {}

\* The routes a cycle may plan for an intent.  A netted route below the reserve
\* falls back to the in-pool one; a dispatch without a mint is not assessed
\* outside SafeMode 1; a refused one may become a credit swap.
Routes(i) ==
  LET dispatches == NettedRoutes(i) \union {InPool}
      assessed == i.mints # {} \/ safeMode = 1
      enough == {r \in dispatches : Sufficient(i, r, tick)}
  IN  IF i.action = "none" THEN {}
      ELSE IF BalanceRoutes(i) # {} THEN BalanceRoutes(i)
      ELSE IF ~assessed THEN {InPool}
      ELSE IF enough # {} THEN enough
      ELSE CreditRoutes(i)

-----------------------------------------------------------------------------
(* The world.                                                              *)

NoPlan == [action |-> "none"]

Moves == moves < MaxMoves /\ moves' = moves + 1 /\ quiet' = 0

\* The price moves, and with it the delta of the options.
MarketMoves ==
  /\ Moves
  /\ tick' \in {t \in Ticks : Magnitude(t - tick) <= 1}
  /\ \E d \in OptionDeltas :
       options' = [options EXCEPT !.delta = IF options.size = 0 THEN 0 ELSE d]
  /\ UNCHANGED <<config, signal, acc, owed, due, safeMode, pc, plan>>

SignalMoves ==
  /\ Moves
  /\ signal' \in Ticks \ {signal}
  /\ UNCHANGED <<config, tick, options, acc, owed, due, safeMode, pc, plan>>

\* The user closes the option book.
OptionsClose ==
  /\ Moves /\ options.size > 0
  /\ options' = [delta |-> 0, size |-> 0]
  /\ UNCHANGED <<config, tick, signal, acc, owed, due, safeMode, pc, plan>>

\* A loan minted by hand, which the bot adopts as one of its own.
AdoptLoan ==
  /\ Moves
  /\ \E side \in Side, size \in LoanSizes :
       LET l == BuildUniqueLoan(acc.book, side, RoundedStrike(tick), size)
       IN  /\ FreeRatios(acc.book, side, RoundedStrike(tick)) # {}
           /\ Accepted(Settle(acc, {}, {l}, TRUE, tick), tick)
           /\ acc' = Settle(acc, {}, {l}, TRUE, tick)
  /\ UNCHANGED <<config, tick, signal, options, owed, due, safeMode, pc, plan>>

\* Tokens sent to the Safe itself.
UserTransfers ==
  /\ Moves /\ config.venue /\ acc.loose.asset = 0
  /\ acc' = [acc EXCEPT !.loose.asset = Transfer]
  /\ UNCHANGED <<config, tick, signal, options, owed, due, safeMode, pc, plan>>

CadenceElapses ==
  /\ Moves /\ ~due
  /\ due' = TRUE
  /\ UNCHANGED <<config, tick, signal, options, acc, owed, safeMode, pc, plan>>

SafeModeChanges ==
  /\ Moves
  /\ safeMode' = 1 - safeMode
  /\ UNCHANGED <<config, tick, signal, options, acc, owed, due, pc, plan>>

-----------------------------------------------------------------------------
(* The cycle.                                                              *)

\* recoverPendingSfpmSwap: a swap that is owed comes before any plan, with a
\* quote and a position list of now; while it cannot be made, nothing is planned.
RecoverSwap ==
  /\ pc = "idle" /\ owed # NoSwap
  /\ SwapOk(acc, owed, tick, tick)
  /\ acc' = Swapped(acc, owed, tick, tick)
  /\ owed' = NoSwap /\ due' = FALSE
  /\ UNCHANGED <<world, pc, plan, quiet>>

\* maybeRedepositWalletBalances: every fifteen minutes, or when a cycle lacks
\* margin.
Redeposit ==
  /\ pc = "idle" /\ owed = NoSwap
  /\ config.venue /\ acc # Redeposited(acc)
  /\ acc' = Redeposited(acc)
  /\ UNCHANGED <<world, owed, due, pc, plan, quiet>>

\* Snapshot, sanity check of the signal, plan and route.
PlanHedge ==
  /\ pc = "idle" /\ owed = NoSwap
  /\ Magnitude(signal - tick) <= SanityMax
  /\ \E i \in {Intent(e) : e \in {x \in {Exposure} : Mintable(x)}} : \E r \in Routes(i) :
       plan' = [action |-> i.action, intent |-> i, route |-> r,
                before |-> acc.book, plannedAt |-> moves, assessedAt |-> -1]
  /\ pc' = "planned"
  /\ UNCHANGED <<world, acc, owed, due, quiet>>

\* Mutant: the in-pool dispatch is assessed and the netted one kept.
PreflightKeepingRoute ==
  /\ pc = "planned"
  /\ LET i == plan.intent
         assessed == plan.route.kind \in {"in-pool", "netted"} /\ i.mints # {}
     IN  IF assessed /\ ~Sufficient(i, InPool, tick)
         THEN pc' = "idle" /\ plan' = NoPlan
         ELSE /\ pc' = "checked"
              /\ plan' = [plan EXCEPT !.assessedAt = IF assessed THEN moves ELSE @]
  /\ UNCHANGED <<world, acc, owed, due, quiet>>

\* executeBalanceFirstSwap falls back to the loan hedge when its swap does not
\* simulate.
WithFallback(i, route) ==
  IF route.kind \in {"balance", "venue"} /\ ~PreviewOk(i, route, tick) THEN InPool ELSE route

\* A dispatch with a mint is assessed again at the block before the send: a
\* netted route that no longer clears the reserve drops to the in-pool one, and
\* an insufficient dispatch ends the cycle.  An in-pool dispatch may then go
\* off-venue.
Preflight ==
  /\ pc = "planned"
  /\ LET i == plan.intent
         wanted == WithFallback(i, plan.route)
         assessed == wanted.kind \in {"in-pool", "netted"} /\ i.mints # {}
         route == IF assessed /\ ~Sufficient(i, wanted, tick) THEN InPool ELSE wanted
     IN  IF assessed /\ ~Sufficient(i, route, tick)
         THEN pc' = "idle" /\ plan' = NoPlan
         ELSE /\ pc' = "checked"
              /\ \E r \in {route} \union {o \in OffVenueRoutes(i) : route = InPool} :
                   plan' = [plan EXCEPT !.route = r, !.assessedAt = IF assessed THEN moves ELSE @]
  /\ UNCHANGED <<world, acc, owed, due, quiet>>

\* A spike of the base fee defers the hedge to a later cycle.
Defer ==
  /\ Moves /\ pc = "planned"
  /\ pc' = "idle" /\ plan' = NoPlan
  /\ UNCHANGED <<config, tick, signal, options, acc, owed, due, safeMode>>

\* A consolidation and the first transaction of an off-venue pair do not swap; a
\* credit swap trades whatever the plan was.
ChangesDelta ==
  plan.route.kind # "off-venue" /\ (plan.intent.swap \/ plan.route.kind = "credit")

\* The protocol runs the dispatch against the book of its block: the position
\* list must still be the planned one and a swap must stay in its tick band.
Lands ==
  LET i == plan.intent IN
  /\ acc.book = plan.before
  /\ ChangesDelta => Magnitude(tick - i.at) <= SlippageTicks
  /\ PreviewOk(i, plan.route, tick)

\* A confirmed change of delta restarts the cadence.  An off-venue dispatch
\* leaves its swap owed.
SendLands ==
  /\ pc = "checked" /\ Lands
  /\ acc' = After(plan.intent, plan.route, tick)
  /\ due' = IF ChangesDelta THEN FALSE ELSE due
  /\ quiet' = Least2(quiet + 1, MaxQuiet)
  /\ IF plan.route.kind = "off-venue"
     THEN owed' = plan.route.swap /\ pc' = "swapping" /\ UNCHANGED plan
     ELSE pc' = "idle" /\ plan' = NoPlan /\ UNCHANGED owed
  /\ UNCHANGED world

SendReverts ==
  /\ pc = "checked" /\ ~Lands
  /\ pc' = "idle" /\ plan' = NoPlan
  /\ UNCHANGED <<world, acc, owed, due, quiet>>

\* executeHedgeWithSfpmVenue: the swap with the quote and the position list from
\* ahead of the dispatch.
SwapPossible ==
  /\ acc.book = (plan.before \ plan.intent.burns) \union plan.intent.mints
  /\ SwapOk(acc, owed, plan.route.quoted, tick)

SwapLands ==
  /\ pc = "swapping" /\ SwapPossible
  /\ acc' = Swapped(acc, owed, plan.route.quoted, tick)
  /\ owed' = NoSwap /\ due' = FALSE
  /\ pc' = "idle" /\ plan' = NoPlan
  /\ UNCHANGED <<world, quiet>>

\* The obligation is what is left when the swap fails, or was not even sent.
SwapFails ==
  /\ pc = "swapping"
  /\ IF SwapPossible THEN Moves ELSE UNCHANGED <<moves, quiet>>
  /\ pc' = "idle" /\ plan' = NoPlan
  /\ UNCHANGED <<config, tick, signal, options, acc, owed, due, safeMode>>

\* Books of loans struck at tick 0, with no tokenId twice.
StartBooks ==
  {b \in SUBSET [side : Side, strike : {0}, ratio : 1..StartLoans, positionSize : LoanSizes] :
     /\ IsFiniteSet(b) /\ Cardinality(b) <= StartLoans
     /\ Cardinality(OpenIds(b)) = Cardinality(b)}

Init ==
  /\ config \in [offsetBps : Offsets, balanceFirst : BalanceFirst,
                 venue : Venue, hedgeWallet : HedgeWallet]
  /\ config.hedgeWallet => config.venue
  /\ tick = 0 /\ signal = 0
  /\ options = [delta |-> 0, size |-> OptionSize]
  /\ acc \in {[asset |-> StartAsset, nume |-> StartNumeraire, book |-> b,
                    loose |-> [asset |-> 0, nume |-> 0]] : b \in StartBooks}
  /\ owed = NoSwap /\ due = FALSE /\ safeMode = 0
  /\ pc = "idle" /\ plan = NoPlan
  /\ moves = 0 /\ quiet = 0

World == MarketMoves \/ SignalMoves \/ OptionsClose \/ AdoptLoan \/ UserTransfers \/ CadenceElapses \/ SafeModeChanges

Cycle ==
  \/ RecoverSwap \/ PlanHedge \/ Preflight \/ SendLands \/ SendReverts
  \/ SwapLands \/ SwapFails \/ Redeposit

Next == World \/ Defer \/ Cycle

Spec == Init /\ [][Next]_vars

-----------------------------------------------------------------------------
(* Properties.                                                             *)

\* A market that stands still is hedged in a bounded number of transactions: no
\* plan undoes the one before it.  Only with an option book: without one, drift
\* is measured against the hedge loans themselves, so what each shrink leaves
\* over is again a large drift of what is left, down to single units.  Spending
\* inventory first takes longer: each swap spends 99.5% of what the one before
\* it left, until a single unit remains.
SettlesQuickly ==
  options.size > 0 => quiet <= (IF config.balanceFirst THEN 6 ELSE 3)

\* A drift beyond the threshold is never met with no plan, whatever the book
\* looks like: with SettlesQuickly, the book of a market at rest is hedged, or
\* the protocol or the reserve refuses.
DriftIsPlanned == HardDrift(Exposure) => Action(Exposure) # "none"

\* A dispatch that changes the delta, sent in the market it was planned for,
\* leaves the account no further from its target than it found it, or within the
\* threshold.  Without an option book a bias is a share of the hedge loans, whose
\* every change moves the target too; there it is about an unbiased target.
Approaches ==
  [][/\ SendLands \/ SwapLands
     /\ plan.plannedAt = moves
     /\ options.size > 0 \/ config.offsetBps = 0
     => \/ Magnitude(Exposure.effective') <= Magnitude(Exposure.effective)
        \/ Exposure'.drift <= ThresholdBps]_vars

\* A consolidation for capacity leaves at most one loan that hedges what the book did:
\* the delta is untouched, and the hedge differs by the rounding of the contracts
\* and of two conversions and by the distance of the strike only.
ConsolidationKeepsHedge ==
  [][SendLands /\ plan.action = "consolidate" /\ ~ChangesDelta =>
       /\ NetDelta' = NetDelta
       /\ Cardinality(acc'.book) <= 1
       /\ LET H == Signed(acc.book, plan.intent.at)
              error == Magnitude(Signed(acc'.book, plan.intent.at) - H)
              price == PriceAt(plan.intent.at)
          IN  error * price <= MaxRatio * price + Unit + Magnitude(H) * (Spacing + SanityMax)]_vars

\* A dispatch with a mint, sent at the block its reserve was assessed at, keeps
\* the reserve in both numeraires.
ReserveSurvives ==
  [][/\ SendLands /\ plan.intent.mints # {} /\ plan.assessedAt = moves
     /\ plan.route.kind \in {"in-pool", "netted"}
     => ReserveKept(acc', tick)]_vars

=============================================================================
